---- MODULE Spec2Model ----
(***************************************************************************)
(* Verification model of the ShabdX translation services.                  *)
(*                                                                         *)
(*   FallbackTranslationService   (FallbackTranslation.ts)                 *)
(*   OfflineTranslationService    (services/OfflineTranslation.ts and the  *)
(*                                 extended pack manager variant)          *)
(*                                                                         *)
(* JavaScript strings are TLA+ strings; a character is a string of length  *)
(* one.  Text in Devanagari or Sinhala script is written in Latin          *)
(* transliteration, because module text is ASCII.                          *)
(***************************************************************************)
EXTENDS Integers, Sequences, FiniteSets, TLC

(***************************************************************************)
(* String primitives of the JavaScript runtime                             *)
(***************************************************************************)

Ch(s, i) == SubSeq(s, i, i)

\* the characters matched by \s that the inputs use
Whitespace == {" ", "\n", "\r"}

LowerLetters ==
    {"a","b","c","d","e","f","g","h","i","j","k","l","m",
     "n","o","p","q","r","s","t","u","v","w","x","y","z"}

UpperLetters ==
    {"A","B","C","D","E","F","G","H","I","J","K","L","M",
     "N","O","P","Q","R","S","T","U","V","W","X","Y","Z"}

Digits == {"0","1","2","3","4","5","6","7","8","9"}

\* String.prototype.toLowerCase on one character
LowerChar(c) ==
    CASE c = "A" -> "a" [] c = "B" -> "b" [] c = "C" -> "c" [] c = "D" -> "d"
      [] c = "E" -> "e" [] c = "F" -> "f" [] c = "G" -> "g" [] c = "H" -> "h"
      [] c = "I" -> "i" [] c = "J" -> "j" [] c = "K" -> "k" [] c = "L" -> "l"
      [] c = "M" -> "m" [] c = "N" -> "n" [] c = "O" -> "o" [] c = "P" -> "p"
      [] c = "Q" -> "q" [] c = "R" -> "r" [] c = "S" -> "s" [] c = "T" -> "t"
      [] c = "U" -> "u" [] c = "V" -> "v" [] c = "W" -> "w" [] c = "X" -> "x"
      [] c = "Y" -> "y" [] c = "Z" -> "z" [] OTHER -> c

RECURSIVE toLowerCase(_)
toLowerCase(s) ==
    IF s = "" THEN "" ELSE LowerChar(Head(s)) \o toLowerCase(Tail(s))

RECURSIVE trimStart(_)
trimStart(s) ==
    IF s # "" /\ Head(s) \in Whitespace THEN trimStart(Tail(s)) ELSE s

RECURSIVE trimEnd(_)
trimEnd(s) ==
    IF s # "" /\ Ch(s, Len(s)) \in Whitespace
    THEN trimEnd(SubSeq(s, 1, Len(s) - 1)) ELSE s

\* String.prototype.trim
trim(s) == trimEnd(trimStart(s))

\* String.prototype.includes
includes(s, p) ==
    \E i \in 1..(Len(s) - Len(p) + 1) : SubSeq(s, i, i + Len(p) - 1) = p

\* String.prototype.startsWith
startsWith(s, p) == Len(p) <= Len(s) /\ SubSeq(s, 1, Len(p)) = p

\* String.prototype.indexOf, 1-based; 0 when absent
indexOf(s, p) ==
    IF includes(s, p)
    THEN CHOOSE i \in 1..(Len(s) - Len(p) + 1) :
            /\ SubSeq(s, i, i + Len(p) - 1) = p
            /\ \A j \in 1..(i - 1) : SubSeq(s, j, j + Len(p) - 1) # p
    ELSE 0

\* String.prototype.replace with a string pattern: first occurrence only
replace(s, p, r) ==
    IF includes(s, p)
    THEN LET i == indexOf(s, p)
         IN  SubSeq(s, 1, i - 1) \o r \o SubSeq(s, i + Len(p), Len(s))
    ELSE s

\* String.prototype.split on a regular expression that is a character class
\* (merge = FALSE) or a character class followed by + (merge = TRUE)
RECURSIVE splitAcc(_, _, _, _, _, _)
splitAcc(s, Sep, merge, i, cur, acc) ==
    IF i > Len(s) THEN Append(acc, cur)
    ELSE IF Ch(s, i) \in Sep
         THEN IF merge /\ i > 1 /\ Ch(s, i - 1) \in Sep
              THEN splitAcc(s, Sep, merge, i + 1, cur, acc)
              ELSE splitAcc(s, Sep, merge, i + 1, "", Append(acc, cur))
         ELSE splitAcc(s, Sep, merge, i + 1, cur \o Ch(s, i), acc)

split(s, Sep, merge) == splitAcc(s, Sep, merge, 1, "", <<>>)

\* text.split(/\s+/)
splitWhitespace(s) == split(s, Whitespace, TRUE)

\* number of characters of s that are in the class Cls
RECURSIVE countIn(_, _)
countIn(s, Cls) ==
    IF s = "" THEN 0
    ELSE (IF Head(s) \in Cls THEN 1 ELSE 0) + countIn(Tail(s), Cls)

\* s.replace(/[^\p{L}\p{N}]/gu, '')
RECURSIVE stripNonAlnum(_)
stripNonAlnum(s) ==
    IF s = "" THEN ""
    ELSE (IF Head(s) \in LowerLetters \cup UpperLetters \cup Digits
          THEN Head(s) ELSE "") \o stripNonAlnum(Tail(s))

(***************************************************************************)
(* JavaScript values that are not strings.  A lookup translations[k] on a  *)
(* plain object yields undefined for a missing key, and the inherited      *)
(* member of Object.prototype for a key such as "constructor".  These are  *)
(* encoded as reserved strings that no input can spell ("<" and ">" are    *)
(* not input characters).                                                  *)
(***************************************************************************)
Undefined == "<undefined>"
NativeObject == "<function Object>"
\* outcome of a call that throws TypeError (a string method on a non-string)
TypeErrorThrown == "<TypeError>"

ObjectPrototypeKeys == {"constructor"}

IsString(v) == v \notin {Undefined, NativeObject, TypeErrorThrown}

\* JavaScript truthiness of a looked-up value
Truthy(v) == v # Undefined /\ v # ""

\* String(v), as applied by Array.prototype.join and template literals
String(v) ==
    IF v = NativeObject THEN "function Object() { [native code] }" ELSE v

\* Array.prototype.join
RECURSIVE join(_, _)
join(parts, sep) ==
    IF Len(parts) = 0 THEN ""
    ELSE IF Len(parts) = 1 THEN String(parts[1])
    ELSE String(parts[1]) \o sep \o join(Tail(parts), sep)

(***************************************************************************)
(* FallbackTranslationService                                              *)
(***************************************************************************)

\* A TranslationPair in the iteration order of Object.entries: the entries
\* below are taken from the tables of the service, in their order there.
Lexicon_en_hi ==
    << <<"hello", "namaste">>, <<"hi", "hailo">>,
       <<"thank you", "dhanyavaad">>, <<"yes", "haan">>,
       <<"good", "achchha">>, <<"you", "aap">>,
       <<"good morning", "shubh prabhaat">> >>

Lexicon_fr_en ==
    << <<"bonjour", "hello">>, <<"salut", "hi">>,
       <<"au revoir", "goodbye">>, <<"merci", "thank you">>,
       <<"oui", "yes">> >>

Lexicon_en_de ==
    << <<"hello", "hallo">>, <<"hi", "hallo">>,
       <<"goodbye", "auf wiedersehen">>, <<"thank you", "danke">>,
       <<"yes", "ja">> >>

Lexicon_de_en ==
    << <<"hallo", "hello">>, <<"auf wiedersehen", "goodbye">>,
       <<"danke", "thank you">>, <<"ja", "yes">> >>

Lexicon_ne_en ==
    << <<"namaste", "Hello">>, <<"dhanyavaad", "Thank you">>,
       <<"paani", "Water">> >>

Lexicon_en_ne ==
    << <<"hello", "namaste">>, <<"hi", "namaste">>,
       <<"thank you", "dhanyavaad">>, <<"yes", "ho">>,
       <<"water", "paani">>, <<"friend", "mitra">> >>

\* this.translations: LanguageDict, keyed by `${sourceLang}-${targetLang}`
translations ==
    << <<"en-hi", Lexicon_en_hi>>, <<"fr-en", Lexicon_fr_en>>,
       <<"en-de", Lexicon_en_de>>, <<"de-en", Lexicon_de_en>>,
       <<"ne-en", Lexicon_ne_en>>, <<"en-ne", Lexicon_en_ne>> >>

\* this.translations[key]: the lexicon, or Undefined
LanguageDictGet(key) ==
    IF \E i \in 1..Len(translations) : translations[i][1] = key
    THEN translations[CHOOSE i \in 1..Len(translations) :
                          translations[i][1] = key][2]
    ELSE Undefined

\* translations[key] on a TranslationPair (a plain object)
PairGet(lex, key) ==
    IF \E i \in 1..Len(lex) : lex[i][1] = key
    THEN lex[CHOOSE i \in 1..Len(lex) : lex[i][1] = key][2]
    ELSE IF key \in ObjectPrototypeKeys THEN NativeObject
    ELSE Undefined

(***************************************************************************)
(* Pattern rules.  A rule is the regular expression                        *)
(*   ^ greeting? \s* word \s+ ... word \s+ (.+?) tail $     (capture)      *)
(*   ^ \s* word \s+ ... word tail $                         (no capture)   *)
(* with the flag i.  greeting is (?:\s*(?:hello|hi)[,!]?\s+)?, and tail is *)
(* [.!?]?\s* or \s*\??\s* for the English rules and                        *)
(* \s+word\s*[danda]?\s* for the Nepali ones.  A match is found as the     *)
(* backtracking matcher finds it: the whitespace before the group is taken *)
(* greedily, the group lazily.                                             *)
(***************************************************************************)

\* the characters . does not match
LineTerminators == {"\n", "\r"}

\* s[i..] starts with the word w, letter case ignored
litAt(s, i, w) ==
    /\ i >= 1 /\ i + Len(w) - 1 <= Len(s)
    /\ toLowerCase(SubSeq(s, i, i + Len(w) - 1)) = w

\* the positions where a run of at least min whitespace characters that
\* starts at i can end (the position after the run)
wsEnds(s, i, min) ==
    {j \in (i + min)..(Len(s) + 1) :
        \A k \in i..(j - 1) : Ch(s, k) \in Whitespace}

\* \s*$ at i
wsToEnd(s, i) == (Len(s) + 1) \in wsEnds(s, i, 0)

\* the positions after word \s+ word \s+ ... \s+, from the positions I
RECURSIVE afterWords(_, _, _)
afterWords(s, I, words) ==
    IF Len(words) = 0 THEN I
    ELSE afterWords(s,
                    UNION {wsEnds(s, i + Len(Head(words)), 1) :
                             i \in {k \in I : litAt(s, k, Head(words))}},
                    Tail(words))

\* (?:\s*(?:hello|hi)[,!]?\s+)? from the start of s
afterGreeting(s) ==
    LET afterWord == UNION {{i + Len(w) : w \in {x \in {"hello", "hi"} : litAt(s, i, x)}} :
                              i \in wsEnds(s, 1, 0)}
        afterMark == afterWord \cup
                     {i + 1 : i \in {k \in afterWord :
                                       k <= Len(s) /\ Ch(s, k) \in {",", "!"}}}
    IN  UNION {wsEnds(s, i, 1) : i \in afterMark}

\* [enders]?\s*$ at i
enderAt(s, i, enders) ==
    \/ wsToEnd(s, i)
    \/ i <= Len(s) /\ Ch(s, i) \in enders /\ wsToEnd(s, i + 1)

\* the tail of a rule matches s from i to the end
tailAt(s, i, tail) ==
    CASE tail.kind = "ender" -> enderAt(s, i, tail.enders)
      [] tail.kind = "wsEnder" ->
            \E k \in wsEnds(s, i, 0) : enderAt(s, k, tail.enders)
      [] OTHER ->
            \E j \in wsEnds(s, i, 1) :
               /\ litAt(s, j, tail.word)
               /\ \E k \in wsEnds(s, j + Len(tail.word), 0) :
                     enderAt(s, k, tail.enders)

\* the result of original.match(pattern): null, or the groups m[1..]
NoMatch == [matched |-> FALSE, groups |-> <<>>]
Match(groups) == [matched |-> TRUE, groups |-> groups]

\* the least and the greatest member of a non-empty set of positions
leastOf(S) == CHOOSE x \in S : \A y \in S : x <= y
greatestOf(S) == CHOOSE x \in S : \A y \in S : y <= x

\* the positions where a group (.+?) that starts at g can end (the position
\* after the group) so that the tail matches after it
groupEnds(s, g, tail) ==
    {e \in (g + 1)..(Len(s) + 1) :
        /\ \A k \in g..(e - 1) : Ch(s, k) \notin LineTerminators
        /\ tailAt(s, e, tail)}

\* the match with the group at g: the lazy group takes its shortest end
captureAt(s, g, tail) ==
    Match(<<SubSeq(s, g, leastOf(groupEnds(s, g, tail)) - 1)>>)

\* the match of a capturing rule whose group can start at the positions of
\* feasible: the greedy whitespace before the group is the longest one
captureFrom(s, feasible, tail) ==
    IF feasible = {} THEN NoMatch
    ELSE captureAt(s, greatestOf(feasible), tail)

\* the last word of a rule without a group, with the tail after it
lastWordAt(s, i, lastWord, tail) ==
    litAt(s, i, lastWord) /\ tailAt(s, i + Len(lastWord), tail)

match(s, rule) ==
    LET \* a rule with a greeting has no \s* of its own: without the
        \* greeting its first word is at the start of the text
        first == IF rule.greeting THEN afterGreeting(s) \cup {1}
                 ELSE wsEnds(s, 1, 0)
    IN  IF ~rule.capture
        THEN IF \E i \in afterWords(s, first,
                             SubSeq(rule.words, 1, Len(rule.words) - 1)) :
                   lastWordAt(s, i, rule.words[Len(rule.words)], rule.tail)
             THEN Match(<<>>)
             ELSE NoMatch
        ELSE captureFrom(s, {g \in afterWords(s, first, rule.words) :
                               groupEnds(s, g, rule.tail) # {}},
                         rule.tail)

EnglishTail == [kind |-> "ender", enders |-> {".", "!", "?"}]
HowAreYouTail == [kind |-> "wsEnder", enders |-> {"?"}]
NepaliTail(word) == [kind |-> "word", word |-> word, enders |-> {"|"}]

PatternRules_en_ne ==
    << [greeting |-> TRUE,  words |-> <<"this", "is">>, capture |-> TRUE,
        tail |-> EnglishTail, template |-> "yo $1 ho"],
       [greeting |-> FALSE, words |-> <<"my", "name", "is">>, capture |-> TRUE,
        tail |-> EnglishTail, template |-> "mero naam $1 ho"],
       [greeting |-> FALSE, words |-> <<"i", "am">>, capture |-> TRUE,
        tail |-> EnglishTail, template |-> "ma $1 hun"],
       [greeting |-> FALSE, words |-> <<"how", "are", "you">>, capture |-> FALSE,
        tail |-> HowAreYouTail, template |-> "tapaain kasto hunuhunchha?"] >>

PatternRules_ne_en ==
    << [greeting |-> FALSE, words |-> <<"yo">>, capture |-> TRUE,
        tail |-> NepaliTail("ho"), template |-> "this is $1"],
       [greeting |-> FALSE, words |-> <<"mero", "naam">>, capture |-> TRUE,
        tail |-> NepaliTail("ho"), template |-> "my name is $1"],
       [greeting |-> FALSE, words |-> <<"ma">>, capture |-> TRUE,
        tail |-> NepaliTail("hun"), template |-> "i am $1"] >>

\* this.patternRules[key]
patternRules(key) ==
    IF key = "en-ne" THEN PatternRules_en_ne
    ELSE IF key = "ne-en" THEN PatternRules_ne_en
    ELSE Undefined

\* the replacement string r of String.prototype.replace, expanded: $$ is a
\* dollar sign, $& the matched text, $' the text after the match; a $ before
\* anything else (the pattern has no groups) stands for itself
RECURSIVE GetSubstitution(_, _, _)
GetSubstitution(r, matched, after) ==
    IF r = "" THEN ""
    ELSE IF Head(r) = "$" /\ Len(r) >= 2 /\ Ch(r, 2) \in {"$", "&", "'"}
         THEN (CASE Ch(r, 2) = "$" -> "$"
                 [] Ch(r, 2) = "&" -> matched
                 [] OTHER -> after)
              \o GetSubstitution(SubSeq(r, 3, Len(r)), matched, after)
         ELSE Head(r) \o GetSubstitution(Tail(r), matched, after)

\* out.replace(new RegExp("\\$" + i, "g"), grp)
RECURSIVE replaceAllPlaceholders(_, _, _)
replaceAllPlaceholders(out, placeholder, grp) ==
    IF ~includes(out, placeholder) THEN out
    ELSE LET i == indexOf(out, placeholder)
             after == SubSeq(out, i + Len(placeholder), Len(out))
         IN  SubSeq(out, 1, i - 1)
             \o GetSubstitution(grp, placeholder, after)
             \o replaceAllPlaceholders(after, placeholder, grp)

Placeholder(i) == "$" \o ToString(i)

\* the body of the loop over the groups m[1..]
RECURSIVE substituteGroups(_, _, _)
substituteGroups(out, m, i) ==
    IF i > Len(m) THEN out
    ELSE substituteGroups(replaceAllPlaceholders(out, Placeholder(i), trim(m[i])),
                          m, i + 1)

\* null of applyPatternRules
Null == "<null>"

\* the index of the first rule that matches original, 0 when none does
firstMatching(rules, original) ==
    LET matching == {i \in 1..Len(rules) : match(original, rules[i]).matched}
    IN  IF matching = {} THEN 0 ELSE leastOf(matching)

\* the template of the rule i filled with the groups of its match; null
\* when no rule matches (i = 0)
applyRule(rules, i, original) ==
    IF i = 0 THEN Null
    ELSE substituteGroups(rules[i].template,
                          match(original, rules[i]).groups, 1)

applyPatternRules(text, sourceLang, targetLang) ==
    LET key == sourceLang \o "-" \o targetLang
        rules == patternRules(key)
        original == trim(text)
    IN  IF rules = Undefined THEN Null
        ELSE applyRule(rules, firstMatching(rules, original), original)

\* /[.!?<danda><double danda><wide bar>]/; "|" stands for the danda
SentenceEnders == {".", "!", "?", "|"}

isParagraph(text) == countIn(text, SentenceEnders) > 1

isSentence(text) ==
    \/ countIn(text, SentenceEnders) > 0
    \/ Len(splitWhitespace(trim(text))) > 3

isPhrase(text) == Len(splitWhitespace(trim(text))) > 1

\* translateWord that falls back to a partial match, as translatePhrase does
translateWord_PartialGuess(text, lex) ==
    LET cleanText == trim(toLowerCase(text))
        hit(i) == /\ Len(lex[i][1]) > 3
                  /\ \/ includes(cleanText, lex[i][1])
                     \/ includes(lex[i][1], cleanText)
    IN  IF Truthy(PairGet(lex, cleanText)) THEN PairGet(lex, cleanText)
        ELSE IF \E i \in 1..Len(lex) : hit(i)
             THEN lex[CHOOSE i \in 1..Len(lex) : hit(i)][2]
        ELSE text

\* translateWord that tags a word it cannot translate
translateWord_Tagged(text, lex) ==
    LET cleanText == trim(toLowerCase(text))
    IN  IF Truthy(PairGet(lex, cleanText)) THEN PairGet(lex, cleanText)
        ELSE IF Truthy(PairGet(lex, trim(text))) THEN PairGet(lex, trim(text))
        ELSE IF Truthy(PairGet(lex, stripNonAlnum(cleanText)))
             THEN PairGet(lex, stripNonAlnum(cleanText))
        ELSE "[Untranslated] " \o text

translateWord(text, lex) ==
    LET cleanText == trim(toLowerCase(text))
        originalText == trim(text)
        cleanWord == stripNonAlnum(cleanText)
    IN  IF Truthy(PairGet(lex, cleanText)) THEN PairGet(lex, cleanText)
        ELSE IF Truthy(PairGet(lex, originalText))
             THEN PairGet(lex, originalText)
        ELSE IF Truthy(PairGet(lex, cleanWord)) THEN PairGet(lex, cleanWord)
        ELSE text

translateWordByWord(text, lex) ==
    LET words == splitWhitespace(trim(text))
        translatedWords == [i \in 1..Len(words) |-> translateWord(words[i], lex)]
    IN  join(translatedWords, " ")

\* index of the first entry a partial phrase match accepts, 0 when none
partialPhraseIndex(cleanText, lex) ==
    LET hit(i) == /\ Len(lex[i][1]) > 3
                  /\ \/ includes(cleanText, lex[i][1])
                     \/ includes(lex[i][1], cleanText)
    IN  IF \E i \in 1..Len(lex) : hit(i)
        THEN CHOOSE i \in 1..Len(lex) : hit(i) /\ \A j \in 1..(i - 1) : ~hit(j)
        ELSE 0

translatePhrase(text, lex) ==
    LET cleanText == trim(toLowerCase(text))
    IN  IF Truthy(PairGet(lex, cleanText)) THEN PairGet(lex, cleanText)
        ELSE IF partialPhraseIndex(cleanText, lex) # 0
             THEN lex[partialPhraseIndex(cleanText, lex)][2]
        ELSE translateWordByWord(text, lex)

\* the class [,;:()\[\]{}"'...] of splitIntoMeaningfulChunks, with "|" for the
\* danda; its remaining member, the backquote, cannot be written in a
\* string here and is not an input character
ChunkDelimiters ==
    {",", ";", ":", "(", ")", "[", "]", "{", "}", "\"", "'", "|"}

\* words.slice(i, i + 3) joined by a space, for i = 0, 3, 6, ...
RECURSIVE wordWindows(_)
wordWindows(words) ==
    IF Len(words) = 0 THEN <<>>
    ELSE IF Len(words) <= 3 THEN <<join(words, " ")>>
    ELSE <<join(SubSeq(words, 1, 3), " ")>>
             \o wordWindows(SubSeq(words, 4, Len(words)))

splitIntoMeaningfulChunks(text) ==
    LET raw == split(text, ChunkDelimiters, FALSE)
        trimmed == [i \in 1..Len(raw) |-> trim(raw[i])]
        chunks == SelectSeq(trimmed, LAMBDA c : Len(c) > 0)
    IN  IF Len(chunks) = 1
        THEN wordWindows(splitWhitespace(trim(text)))
        ELSE chunks

\* index of the first entry the long-phrase scan accepts, 0 when none
longPhraseIndex(cleanText, lex) ==
    LET hit(i) == /\ Len(lex[i][1]) > 10
                  /\ includes(cleanText, toLowerCase(lex[i][1]))
    IN  IF \E i \in 1..Len(lex) : hit(i)
        THEN CHOOSE i \in 1..Len(lex) : hit(i) /\ \A j \in 1..(i - 1) : ~hit(j)
        ELSE 0

\* translateSentence after the pattern rules: the long phrases of the
\* lexicon, then the chunks of the sentence
resolveSentence(text, lex) ==
    LET cleanText == trim(toLowerCase(text))
        k == longPhraseIndex(cleanText, lex)
        chunks == splitIntoMeaningfulChunks(text)
        translatedChunks ==
            [i \in 1..Len(chunks) |-> translatePhrase(chunks[i], lex)]
    IN  IF k # 0
        THEN replace(cleanText, toLowerCase(lex[k][1]), lex[k][2])
        ELSE join(translatedChunks, " ")

\* if (patternTranslation) return patternTranslation, and otherwise the
\* rest of translateSentence
patternedOr(patterned, resolved) ==
    IF patterned # Null /\ patterned # "" THEN patterned ELSE resolved

translateSentence(text, lex, sourceLang, targetLang) ==
    patternedOr(applyPatternRules(text, sourceLang, targetLang),
                resolveSentence(text, lex))

splitIntoSentences(text) ==
    SelectSeq(split(text, SentenceEnders, TRUE), LAMBDA s : Len(trim(s)) > 0)

translateParagraph(text, lex, sourceLang, targetLang) ==
    LET lines == split(text, {"\n"}, FALSE)
        translateLine(line) ==
            IF trim(line) = "" THEN ""
            ELSE LET sentences == splitIntoSentences(line)
                 IN  join([i \in 1..Len(sentences) |->
                              translateSentence(sentences[i], lex,
                                                sourceLang, targetLang)], " ")
    IN  join([i \in 1..Len(lines) |-> translateLine(lines[i])], "\n")

\* translateComplexText that scans for a partial match before the whole-text
\* lookup
translateComplexText_PartialFirst(text, lex, sourceLang, targetLang) ==
    IF ~IsString(text) THEN TypeErrorThrown
    ELSE
    LET originalText == trim(text)
        cleanText == trim(toLowerCase(text))
    IN  IF cleanText # "" /\ partialPhraseIndex(cleanText, lex) # 0
        THEN lex[partialPhraseIndex(cleanText, lex)][2]
        ELSE IF Truthy(PairGet(lex, cleanText)) THEN PairGet(lex, cleanText)
        ELSE IF Truthy(PairGet(lex, originalText))
             THEN PairGet(lex, originalText)
        ELSE IF isParagraph(text)
             THEN translateParagraph(text, lex, sourceLang, targetLang)
        ELSE IF isSentence(text)
             THEN translateSentence(text, lex, sourceLang, targetLang)
        ELSE IF isPhrase(text) THEN translatePhrase(text, lex)
        ELSE translateWord(text, lex)

\* translateComplexText that asks isSentence before isParagraph
translateComplexText_SentenceFirst(text, lex, sourceLang, targetLang) ==
    IF ~IsString(text) THEN TypeErrorThrown
    ELSE
    LET originalText == trim(text)
        cleanText == trim(toLowerCase(text))
    IN  IF Truthy(PairGet(lex, cleanText)) THEN PairGet(lex, cleanText)
        ELSE IF Truthy(PairGet(lex, originalText))
             THEN PairGet(lex, originalText)
        ELSE IF isSentence(text)
             THEN translateSentence(text, lex, sourceLang, targetLang)
        ELSE IF isParagraph(text)
             THEN translateParagraph(text, lex, sourceLang, targetLang)
        ELSE IF isPhrase(text) THEN translatePhrase(text, lex)
        ELSE translateWord(text, lex)

translateComplexText(text, lex, sourceLang, targetLang) ==
    IF ~IsString(text) THEN TypeErrorThrown
    ELSE
    LET originalText == trim(text)
        cleanText == trim(toLowerCase(text))
    IN  IF Truthy(PairGet(lex, cleanText)) THEN PairGet(lex, cleanText)
        ELSE IF Truthy(PairGet(lex, originalText))
             THEN PairGet(lex, originalText)
        ELSE IF isParagraph(text)
             THEN translateParagraph(text, lex, sourceLang, targetLang)
        ELSE IF isSentence(text)
             THEN translateSentence(text, lex, sourceLang, targetLang)
        ELSE IF isPhrase(text) THEN translatePhrase(text, lex)
        ELSE translateWord(text, lex)

NoDictionaryMarker(sourceLang, targetLang) ==
    "[No dictionary: " \o sourceLang \o "-" \o targetLang \o "] "

\* translate whose pivot applies the second lexicon to the source text
translate_PivotOnSource(text, sourceLang, targetLang) ==
    LET direct == LanguageDictGet(sourceLang \o "-" \o targetLang)
        toEnglish == LanguageDictGet(sourceLang \o "-en")
        fromEnglish == LanguageDictGet("en-" \o targetLang)
    IN  IF direct # Undefined
        THEN translateComplexText(text, direct, sourceLang, targetLang)
        ELSE IF toEnglish # Undefined /\ fromEnglish # Undefined
             THEN translateComplexText(text, fromEnglish, "en", targetLang)
        ELSE IF toEnglish # Undefined
             THEN translateComplexText(text, toEnglish, sourceLang, "en")
        ELSE NoDictionaryMarker(sourceLang, targetLang) \o String(text)

\* translate that returns the text unmarked when there is no dictionary
translate_NoMarker(text, sourceLang, targetLang) ==
    LET direct == LanguageDictGet(sourceLang \o "-" \o targetLang)
        toEnglish == LanguageDictGet(sourceLang \o "-en")
        fromEnglish == LanguageDictGet("en-" \o targetLang)
    IN  IF direct # Undefined
        THEN translateComplexText(text, direct, sourceLang, targetLang)
        ELSE IF toEnglish # Undefined /\ fromEnglish # Undefined
             THEN translateComplexText(
                      translateComplexText(text, toEnglish, sourceLang, "en"),
                      fromEnglish, "en", targetLang)
        ELSE IF toEnglish # Undefined
             THEN translateComplexText(text, toEnglish, sourceLang, "en")
        ELSE String(text)

\* translate that tries the English-only lexicon before the pivot
translate_EnglishOnlyFirst(text, sourceLang, targetLang) ==
    LET direct == LanguageDictGet(sourceLang \o "-" \o targetLang)
        toEnglish == LanguageDictGet(sourceLang \o "-en")
        fromEnglish == LanguageDictGet("en-" \o targetLang)
    IN  IF direct # Undefined
        THEN translateComplexText(text, direct, sourceLang, targetLang)
        ELSE IF toEnglish # Undefined
             THEN translateComplexText(text, toEnglish, sourceLang, "en")
        ELSE IF toEnglish # Undefined /\ fromEnglish # Undefined
             THEN translateComplexText(
                      translateComplexText(text, toEnglish, sourceLang, "en"),
                      fromEnglish, "en", targetLang)
        ELSE NoDictionaryMarker(sourceLang, targetLang) \o String(text)

\* translate that hands a text for English back as it is when it has no
\* lexicon for it
translate_EnglishAsIs(text, sourceLang, targetLang) ==
    LET direct == LanguageDictGet(sourceLang \o "-" \o targetLang)
        toEnglish == LanguageDictGet(sourceLang \o "-en")
        fromEnglish == LanguageDictGet("en-" \o targetLang)
    IN  IF direct # Undefined
        THEN translateComplexText(text, direct, sourceLang, targetLang)
        ELSE IF targetLang = "en" /\ toEnglish # Undefined
             THEN translateComplexText(text, toEnglish, sourceLang, "en")
        ELSE IF targetLang = "en" THEN String(text)
        ELSE IF toEnglish # Undefined /\ fromEnglish # Undefined
             THEN translateComplexText(
                      translateComplexText(text, toEnglish, sourceLang, "en"),
                      fromEnglish, "en", targetLang)
        ELSE IF toEnglish # Undefined
             THEN translateComplexText(text, toEnglish, sourceLang, "en")
        ELSE NoDictionaryMarker(sourceLang, targetLang) \o String(text)

translate(text, sourceLang, targetLang) ==
    LET direct == LanguageDictGet(sourceLang \o "-" \o targetLang)
        toEnglish == LanguageDictGet(sourceLang \o "-en")
        fromEnglish == LanguageDictGet("en-" \o targetLang)
    IN  IF direct # Undefined
        THEN translateComplexText(text, direct, sourceLang, targetLang)
        ELSE IF targetLang = "en" /\ toEnglish # Undefined
             THEN translateComplexText(text, toEnglish, sourceLang, "en")
        ELSE IF toEnglish # Undefined /\ fromEnglish # Undefined
             THEN translateComplexText(
                      translateComplexText(text, toEnglish, sourceLang, "en"),
                      fromEnglish, "en", targetLang)
        ELSE IF toEnglish # Undefined
             THEN translateComplexText(text, toEnglish, sourceLang, "en")
        ELSE NoDictionaryMarker(sourceLang, targetLang) \o String(text)

isLanguagePairSupported(sourceLang, targetLang) ==
    LanguageDictGet(sourceLang \o "-" \o targetLang) # Undefined

(***************************************************************************)
(* OfflineTranslationService.  The repository holds two builds of the      *)
(* class: services/OfflineTranslation.ts, which the pages import, and the  *)
(* extended pack manager (an English pack, preloading, special-case        *)
(* translators).  Both are modelled; the variable build tells which one a  *)
(* behaviour runs.  Nepali and Sinhala text is written in lower-case Latin *)
(* transliteration; its letters have no upper case, as in the scripts.     *)
(* "|" stands for the danda.                                               *)
(***************************************************************************)
Services == "services/OfflineTranslation.ts"
Part002 == "part_002"
Builds == {Services, Part002}

\* this.languagePacks after initializeLanguagePacks: codes in insertion order
initializeLanguagePacks(b) ==
    IF b = Services THEN <<"ne", "si">> ELSE <<"ne", "si", "en">>

PackCodes(b) ==
    {initializeLanguagePacks(b)[i] : i \in 1..Len(initializeLanguagePacks(b))}

\* isDownloaded of a pack as initializeLanguagePacks creates it
InitiallyDownloaded(b, code) == b = Part002 /\ code = "en"

\* Map.prototype.get on a Map given as its entries in insertion order
MapGet(m, key) ==
    IF \E i \in 1..Len(m) : m[i][1] = key
    THEN m[CHOOSE i \in 1..Len(m) : m[i][1] = key][2]
    ELSE Undefined

EmptyMap == <<>>

\* dictionaries.ne / dictionaries.si / dictionaries.en of
\* loadLanguageDictionary (a selection of the entries)
Dictionary_ne ==
    << <<"namaste", "Hello">>, <<"dhanyavaad", "Thank you">>,
       <<"paani", "Water">>, <<"khaana", "Food">>,
       <<"mero naam", "My name is">> >>

Dictionary_si ==
    << <<"aayuboowan", "Hello">>, <<"stuutiyi", "Thank you">>,
       <<"watura", "Water">>, <<"mage nama", "My name is">> >>

\* the English pack lists each key twice, English to Nepali and then
\* English to Sinhala; new Map keeps the later value
Dictionary_en ==
    << <<"Hello", "aayuboowan">>, <<"Thank you", "stuutiyi">>,
       <<"Water", "watura">> >>

\* dictionaries[langCode]
dictionaries(b, langCode) ==
    CASE langCode = "ne" -> Dictionary_ne
      [] langCode = "si" -> Dictionary_si
      [] langCode = "en" /\ b = Part002 -> Dictionary_en
      [] OTHER -> Undefined

\* words.map(f) for a sequence of strings
MapWords(words, f(_)) == [i \in 1..Len(words) |-> f(words[i])]

\* services/OfflineTranslation.ts: performDictionaryTranslation
performDictionaryTranslation(text, dict) ==
    LET exactMatch == MapGet(dict, trim(text))
        word(w)    == LET cleanWord == trim(toLowerCase(w))
                          found     == MapGet(dict, cleanWord)
                      IN  IF Truthy(found) THEN found ELSE w
        result     == join(MapWords(splitWhitespace(text), word), " ")
    IN  IF Truthy(exactMatch) THEN exactMatch ELSE result

\* services/OfflineTranslation.ts: performPhraseTranslation
performPhraseTranslation(text, dict) ==
    LET hit(i) == includes(text, dict[i][1]) \/ includes(dict[i][1], text)
    IN  IF \E i \in 1..Len(dict) : hit(i)
        THEN dict[CHOOSE i \in 1..Len(dict) :
                      hit(i) /\ \A j \in 1..(i - 1) : ~hit(j)][2]
        ELSE "[Offline] " \o text

(***************************************************************************)
(* The special-case translators of the extended pack manager               *)
(***************************************************************************)

\* getHardcodedTranslation: the greeting and food rules of each language
getHardcodedTranslation(text, sourceLang) ==
    IF sourceLang = "ne"
       /\ (includes(text, "namaste") \/ includes(text, "namaskaar"))
    THEN "Hello! Greetings! How are you today?"
    ELSE IF sourceLang = "ne"
            /\ (includes(text, "khaana") \/ includes(text, "mitho")
                \/ includes(text, "bhok laagyo"))
    THEN "Nepali cuisine is delicious! Popular dishes include momo (dumplings), dal bhat (lentils and rice), and sel roti (sweet rice bread). Many dishes are flavored with cumin, coriander, and other spices."
    ELSE IF sourceLang = "si"
            /\ (includes(text, "aayuboowan") \/ includes(text, "subha udaesanak"))
    THEN "Hello! Good morning! How are you today?"
    ELSE Null

\* enToNeDict of translateEnglishToNepali
enToNeDict ==
    << <<"hello", "namaste">>, <<"hi", "namaste">>,
       <<"thank you", "dhanyavaad">>, <<"water", "paani">>,
       <<"my name is", "mero naam ho">> >>

\* enToSiDict of translateEnglishToSinhala
enToSiDict ==
    << <<"hello", "aayuboowan">>, <<"hi", "aayuboowan">>,
       <<"thank you", "stuutiyi">>, <<"water", "watura">>,
       <<"my name is", "mage nama">> >>

\* text.replace(new RegExp(phrase, 'i'), translation), phrase in lower case
replaceIgnoreCase(text, phrase, translation) ==
    LET lowered == toLowerCase(text)
    IN  IF includes(lowered, phrase)
        THEN LET i == indexOf(lowered, phrase)
             IN  SubSeq(text, 1, i - 1) \o translation
                    \o SubSeq(text, i + Len(phrase), Len(text))
        ELSE text

\* the body shared by translateEnglishToNepali and translateEnglishToSinhala
translateEnglishWith(text, dict) ==
    LET lowerText == trim(toLowerCase(text))
        exact     == PairGet(dict, lowerText)
        hit(i)    == Len(dict[i][1]) > 5 /\ includes(lowerText, dict[i][1])
        word(w)   == LET found == PairGet(dict, toLowerCase(w))
                     IN  IF Truthy(found) THEN found ELSE w
    IN  IF Truthy(exact) THEN exact
        ELSE IF \E i \in 1..Len(dict) : hit(i)
        THEN LET i == CHOOSE k \in 1..Len(dict) :
                          hit(k) /\ \A j \in 1..(k - 1) : ~hit(j)
             IN  replaceIgnoreCase(text, dict[i][1], dict[i][2])
        ELSE join(MapWords(splitWhitespace(text), word), " ")

translateEnglishToNepali(text) == translateEnglishWith(text, enToNeDict)

translateEnglishToSinhala(text) == translateEnglishWith(text, enToSiDict)

\* neToEnDict of translateNepaliToEnglish; a key written twice keeps its
\* first position and its last value ("ho": 'Yes', later 'Is')
neToEnDict ==
    << <<"namaste", "Hello">>, <<"dhanyavaad", "Thank you">>,
       <<"ho", "Is">>, <<"paani", "Water">>, <<"khaana", "Food">>,
       <<"mero naam", "My name is">>,
       <<"nepaalii bhaashaa", "Nepali language">>,
       <<"nepaalii bhaashaa ek dhanii bhaashaa ho",
         "Nepali is a rich language with a long history and cultural significance.">> >>

\* siToEnDict of translateSinhalaToEnglish
siToEnDict ==
    << <<"aayuboowan", "Hello">>, <<"stuutiyi", "Thank you">>,
       <<"watura", "Water">>, <<"mage nama", "My name is">>,
       <<"sinhala", "Sinhala">> >>

\* Array.prototype.filter(s => s) on strings
RECURSIVE filterTruthy(_)
filterTruthy(parts) ==
    IF Len(parts) = 0 THEN <<>>
    ELSE IF Truthy(Head(parts)) THEN <<Head(parts)>> \o filterTruthy(Tail(parts))
    ELSE filterTruthy(Tail(parts))

\* s.replace(/\s{2,}/g, ' ') on s[lo..hi], by halves: a whitespace
\* character with a whitespace neighbour belongs to a run, which leaves one
\* space at its first position
RECURSIVE collapseRange(_, _, _)
collapseRange(s, lo, hi) ==
    LET ws(i) == i >= 1 /\ i <= Len(s) /\ Ch(s, i) \in Whitespace
        mid == (lo + hi) \div 2
    IN  IF lo > hi THEN ""
        ELSE IF lo < hi
        THEN collapseRange(s, lo, mid) \o collapseRange(s, mid + 1, hi)
        ELSE IF ~ws(lo) \/ (~ws(lo - 1) /\ ~ws(lo + 1)) THEN Ch(s, lo)
        ELSE IF ~ws(lo - 1) THEN " "
        ELSE ""

collapseWhitespace(s) == collapseRange(s, 1, Len(s))

\* keys.sort((a, b) => b.length - a.length): stable, longest first
RECURSIVE sortByLengthDesc(_)
sortByLengthDesc(keys) ==
    IF Len(keys) = 0 THEN <<>>
    ELSE LET longest == CHOOSE i \in 1..Len(keys) :
                           /\ \A j \in 1..Len(keys) : Len(keys[j]) <= Len(keys[i])
                           /\ \A j \in 1..(i - 1) : Len(keys[j]) < Len(keys[i])
             others  == [j \in 1..(Len(keys) - 1) |->
                            IF j < longest THEN keys[j] ELSE keys[j + 1]]
         IN  <<keys[longest]>> \o sortByLengthDesc(others)

\* Object.keys(dict)
keysOf(dict) == [i \in 1..Len(dict) |-> dict[i][1]]

\* the loop over phrases in translateNepaliWordsToEnglish
RECURSIVE replacePhrases(_, _, _)
replacePhrases(processedText, phrases, dict) ==
    IF Len(phrases) = 0 THEN processedText
    ELSE replacePhrases(replace(processedText, Head(phrases),
                                PairGet(dict, Head(phrases))),
                        Tail(phrases), dict)

\* compound-word decomposition: the first split point whose halves are
\* both dictionary entries, or 0
compoundSplit(word, dict) ==
    LET ok(i) == /\ Truthy(PairGet(dict, SubSeq(word, 1, i)))
                 /\ Truthy(PairGet(dict, SubSeq(word, i + 1, Len(word))))
    IN  IF \E i \in 1..(Len(word) - 1) : ok(i)
        THEN CHOOSE i \in 1..(Len(word) - 1) :
                 ok(i) /\ \A j \in 1..(i - 1) : ~ok(j)
        ELSE 0

\* affix matching: the first dictionary word longer than 3 inside word, or 0
affixIndex(word, dict) ==
    LET ok(i) == Len(dict[i][1]) > 3 /\ includes(word, dict[i][1])
    IN  IF \E i \in 1..Len(dict) : ok(i)
        THEN CHOOSE i \in 1..Len(dict) : ok(i) /\ \A j \in 1..(i - 1) : ~ok(j)
        ELSE 0

translateNepaliWordsToEnglish(text, dict) ==
    LET isPhraseIn(key) == includes(key, " ") /\ includes(text, key)
        phrases         == sortByLengthDesc(SelectSeq(keysOf(dict), isPhraseIn))
        processedText   == replacePhrases(text, phrases, dict)
        word(w) ==
            LET c == compoundSplit(w, dict)
                a == affixIndex(w, dict)
            IN  IF Truthy(PairGet(dict, w)) THEN PairGet(dict, w)
                ELSE IF Truthy(PairGet(dict, toLowerCase(w)))
                THEN PairGet(dict, toLowerCase(w))
                ELSE IF c # 0
                THEN String(PairGet(dict, SubSeq(w, 1, c))) \o " "
                        \o String(PairGet(dict, SubSeq(w, c + 1, Len(w))))
                ELSE IF a # 0 THEN replace(w, dict[a][1], dict[a][2])
                ELSE w
    IN  IF processedText # text THEN processedText
        ELSE collapseWhitespace(join(MapWords(splitWhitespace(text), word), " "))

NepaliLanguageSummary ==
    "Nepali is a rich language with a long history. It is the official language of Nepal and is also spoken in parts of India. The Nepali language has its own script and is influenced by Sanskrit. It has a rich literary tradition and is an important part of Nepali cultural identity. The language has evolved over time and continues to adapt to modern needs while preserving its cultural heritage. Nepali is taught in schools throughout Nepal and is used in government, media, and everyday communication. It serves as a unifying factor for the diverse ethnic groups in Nepal."

translateNepaliToEnglish(text) ==
    LET sentences == split(text, {"|", "?", "!"}, FALSE)
        longKey(s, i) == Len(neToEnDict[i][1]) > 10 /\ includes(s, neToEnDict[i][1])
        sentence(s) ==
            LET trimmedSentence == trim(s)
            IN  IF trimmedSentence = "" THEN ""
                ELSE IF Truthy(PairGet(neToEnDict, trimmedSentence))
                THEN PairGet(neToEnDict, trimmedSentence)
                ELSE IF \E i \in 1..Len(neToEnDict) : longKey(trimmedSentence, i)
                THEN LET i == CHOOSE k \in 1..Len(neToEnDict) :
                                  /\ longKey(trimmedSentence, k)
                                  /\ \A j \in 1..(k - 1) : ~longKey(trimmedSentence, j)
                     IN  replace(trimmedSentence, neToEnDict[i][1], neToEnDict[i][2])
                ELSE translateNepaliWordsToEnglish(trimmedSentence, neToEnDict)
    IN  IF includes(text, "nepaalii bhaashaa") /\ Len(text) > 50
        THEN NepaliLanguageSummary
        ELSE IF Truthy(PairGet(neToEnDict, trim(text)))
        THEN PairGet(neToEnDict, trim(text))
        ELSE IF Len(sentences) > 1
        THEN join(filterTruthy(MapWords(sentences, sentence)), ". ")
        ELSE translateNepaliWordsToEnglish(text, neToEnDict)

translateSinhalaWordsToEnglish(text, dict) ==
    LET word(w) ==
            LET c == compoundSplit(w, dict)
            IN  IF Truthy(PairGet(dict, w)) THEN PairGet(dict, w)
                ELSE IF c # 0
                THEN String(PairGet(dict, SubSeq(w, 1, c))) \o " "
                        \o String(PairGet(dict, SubSeq(w, c + 1, Len(w))))
                ELSE w
    IN  join(MapWords(splitWhitespace(text), word), " ")

translateSinhalaToEnglish(text) ==
    LET sentences == split(text, {".", "!", "?"}, FALSE)
        sentence(s) ==
            LET trimmedSentence == trim(s)
            IN  IF trimmedSentence = "" THEN ""
                ELSE IF Truthy(PairGet(siToEnDict, trimmedSentence))
                THEN PairGet(siToEnDict, trimmedSentence)
                ELSE translateSinhalaWordsToEnglish(trimmedSentence, siToEnDict)
    IN  IF Truthy(PairGet(siToEnDict, trim(text)))
        THEN PairGet(siToEnDict, trim(text))
        ELSE IF Len(sentences) > 1
        THEN join(filterTruthy(MapWords(sentences, sentence)), ". ")
        ELSE translateSinhalaWordsToEnglish(text, siToEnDict)

(***************************************************************************)
(* OnlineTranslationService: chunking of the text sent to the remote       *)
(* endpoint.  The operators below look at a text by position, without      *)
(* recursion over its characters, since chunking matters for texts longer  *)
(* than maxLen.                                                            *)
(***************************************************************************)

\* the character at position i, "" outside the text
At(s, i) == IF i >= 1 /\ i <= Len(s) THEN SubSeq(s, i, i) ELSE ""

\* the default of the parameter maxLen of chunkText
maxLen == 2000

\* the sentence terminators of /(?<=[.!?<danda><double danda>])\s+/
SentenceTerminators == {".", "!", "?", "|"}

\* length of the match of /\r?\n\r?\n/ that starts at position i, 0 if none
paragraphBreakAt(s, i) ==
    LET a == IF At(s, i) = "\r" THEN i + 1 ELSE i
        b == IF At(s, a + 1) = "\r" THEN a + 2 ELSE a + 1
    IN  IF At(s, a) = "\n" /\ At(s, b) = "\n" THEN b - i + 1 ELSE 0

\* the end of the run of whitespace that starts at position i
RECURSIVE whitespaceEnd(_, _)
whitespaceEnd(s, i) ==
    IF At(s, i) \in Whitespace THEN whitespaceEnd(s, i + 1) ELSE i

\* length of the match of /(?<=[.!?|])\s+/ that starts at position i
sentenceBreakAt(s, i) ==
    IF At(s, i) \in Whitespace /\ At(s, i - 1) \in SentenceTerminators
    THEN whitespaceEnd(s, i) - i
    ELSE 0

\* String.prototype.split on a regular expression, given the positions where
\* it matches and, in len, the length of the match at each of them
RECURSIVE splitAt(_, _, _, _)
splitAt(s, from, matches, len) ==
    LET ahead == {i \in matches : i >= from}
    IN  IF ahead = {} THEN <<SubSeq(s, from, Len(s))>>
        ELSE LET i == CHOOSE x \in ahead : \A y \in ahead : x <= y
             IN  <<SubSeq(s, from, i - 1)>>
                    \o splitAt(s, i + len[i], matches, len)

\* text.split(/\r?\n\r?\n/)
splitParagraphs(text) ==
    LET matches == {i \in 1..Len(text) : paragraphBreakAt(text, i) > 0}
    IN  splitAt(text, 1, matches, [i \in matches |-> paragraphBreakAt(text, i)])

\* p.split(/(?<=[.!?|])\s+/)
splitSentences(p) ==
    LET matches == {i \in 1..Len(p) : sentenceBreakAt(p, i) > 0}
    IN  splitAt(p, 1, matches, [i \in matches |-> sentenceBreakAt(p, i)])

\* flush() of chunkText, on the pair of chunks and current
flush(acc) ==
    [chunks  |-> IF Len(trim(acc.current)) > 0
                 THEN Append(acc.chunks, acc.current) ELSE acc.chunks,
     current |-> ""]

\* the loop over the sentences of a paragraph longer than limit
RECURSIVE addSentences(_, _, _)
addSentences(acc, sentences, limit) ==
    IF Len(sentences) = 0 THEN acc
    ELSE LET s       == Head(sentences)
             sep(c)  == IF c # "" THEN " " ELSE ""
             flushed == IF Len(acc.current \o sep(acc.current) \o s) > limit
                        THEN flush(acc) ELSE acc
             next    == [flushed EXCEPT !.current = @ \o sep(@) \o s]
         IN  addSentences(next, Tail(sentences), limit)

\* the loop over the paragraphs
RECURSIVE addParagraphs(_, _, _)
addParagraphs(acc, paragraphs, limit) ==
    IF Len(paragraphs) = 0 THEN acc
    ELSE LET p    == Head(paragraphs)
             paragraphWithBreak ==
                     IF acc.current # "" THEN acc.current \o "\n\n" \o p ELSE p
             next == IF Len(p) > limit
                     THEN flush(addSentences(acc, splitSentences(p), limit))
                     ELSE IF Len(paragraphWithBreak) > limit
                     THEN flush([flush(acc) EXCEPT !.current = p])
                     ELSE [acc EXCEPT !.current = paragraphWithBreak]
         IN  addParagraphs(next, Tail(paragraphs), limit)

\* chunkText(text, maxLen)
chunkText(text, limit) ==
    LET chunks == flush(addParagraphs([chunks |-> <<>>, current |-> ""],
                                      splitParagraphs(text), limit)).chunks
    IN  IF Len(chunks) > 0 THEN chunks ELSE <<text>>

(***************************************************************************)
(* Calls of FallbackTranslationService.translate                           *)
(***************************************************************************)

VARIABLES fbText, fbSrc, fbTgt, fbResult, fbDone

fbVars == <<fbText, fbSrc, fbTgt, fbResult, fbDone>>

\* a text has at most MaxPieces pieces
MaxPieces == 3

SourceLangs == {"en", "fr", "xx"}
TargetLangs == {"en", "de", "hi", "xx"}

\* the fragments input texts are built from, by source language
Pieces(lang) ==
    IF lang = "fr"
    THEN {"bonjour", "Merci", "onjo", "xyz", "constructor", " ", "\n", ".", ","}
    ELSE {"hello", "HELLO", "Thank", "you", "good", "morning", "ello", "xyz",
          "constructor",
          " ", "\n", ".", ","}

RECURSIVE TextsUpTo(_, _)
TextsUpTo(lang, n) ==
    IF n = 0 THEN {""}
    ELSE LET shorter == TextsUpTo(lang, n - 1)
         IN  shorter \cup {t \o p : t \in shorter, p \in Pieces(lang)}

Texts(lang) == TextsUpTo(lang, MaxPieces)

NotCalled == "<pending>"

(***************************************************************************)
(* State of the OfflineTranslationService singleton and of the browser     *)
(* storage it persists to                                                  *)
(***************************************************************************)

VARIABLES
    build,             \* which build of the class runs
    isDownloaded,      \* pack.isDownloaded, by language code
    dictionary,        \* pack.dictionary, by language code
    translationCache,  \* this.translationCache: cache key -> entry
    localStorage,      \* the keys of window.localStorage the service uses
    now,               \* Date.now(), in hours
    download,          \* the downloadLanguagePack call in progress, by code
    lastCall           \* the public call that settled last, and its outcome

offVars == <<build, isDownloaded, dictionary, translationCache, localStorage,
             now, download, lastCall>>

(***************************************************************************)
(* State of the page Index and of the browser around it                    *)
(***************************************************************************)

VARIABLES
    page,        \* the useState values of Index, and the toast shown last
    onLine,      \* navigator.onLine
    onlineCall   \* the call of onlineTranslationService.translate

pageVars == <<page, onLine, onlineCall>>

VARIABLES
    translating,  \* the translateOffline call that is suspended at an await
    removing,     \* the removeLanguagePack call that is suspended at an await
    microtasks    \* the continuations that wait for their turn, first in first out

asyncVars == <<translating, removing, microtasks>>

\* no call of translateOffline is suspended
NotTranslating ==
    [pc |-> "idle", text |-> "", sourceLang |-> "", targetLang |-> "",
     translation |-> ""]

\* no call of removeLanguagePack is suspended; langCode and overlapped tell
\* of the call that settled last
NotRemoving ==
    [pc |-> "idle", langCode |-> "", threw |-> FALSE, overlapped |-> FALSE]

InitAsyncVars ==
    /\ translating = NotTranslating
    /\ removing = NotRemoving
    /\ microtasks = <<>>

\* the values the useState calls of Index start with
InitialPage ==
    [inputText  |-> "",
     translation |-> "",
     sourceLang |-> "ne",
     targetLang |-> "en",
     isLoading  |-> FALSE,
     activeTab  |-> "text",
     translationMethod |-> "",
     toast      |-> ""]

\* no call of onlineTranslationService.translate was made
NoOnlineCall ==
    [pc |-> "idle", text |-> "", sourceLang |-> "", targetLang |-> "",
     chunks |-> <<>>, out |-> <<>>, result |-> ""]

InitPageVars ==
    /\ page = InitialPage
    /\ onLine = TRUE
    /\ onlineCall = NoOnlineCall

\* 24 * 60 * 60 * 1000 ms, in hours
TTL == 24

\* const totalSteps of downloadLanguagePack, in each build
totalSteps_Services == 100
totalSteps_Part002 == 10

totalSteps(b) == IF b = Services THEN totalSteps_Services ELSE totalSteps_Part002

\* the clock stops at MaxClock hours
MaxClock == 48
\* the time that passes between two events
Elapse == {12, 24}

\* at most MaxActiveDownloads downloadLanguagePack calls run at a time
MaxActiveDownloads == 1

\* the language codes callers pass; "xx" has no pack
LangCodes == {"ne", "si", "xx"}

\* the calls of translateOffline: <<text, sourceLang, targetLang>>
OfflineCalls ==
    { <<"dhanyavaad", "ne", "en">>, <<"stuutiyi", "si", "en">>,
      <<"hello", "en", "ne">> }

\* an object without own properties: {}
EmptyObject == [k \in {} |-> TRUE]

\* obj[key] = value
PutKey(obj, key, value) == (key :> value) @@ obj

\* delete obj[key] for the keys that satisfy drop
DeleteKeys(obj, drop(_)) == [k \in {x \in DOMAIN obj : ~drop(x)} |-> obj[k]]

\* a localStorage item that holds JSON: missing, unparsable, or a value
AbsentItem == [kind |-> "absent", val |-> EmptyObject]
CorruptItem == [kind |-> "corrupt", val |-> EmptyObject]
JsonItem(v) == [kind |-> "json", val |-> v]

\* Date.prototype.toISOString, as JSON.stringify applies it to a timestamp
toISOString(t) == "T+" \o ToString(t) \o "h"

\* new Date(isoString).getTime()
DateParse(s) == CHOOSE t \in 0..(MaxClock + 1) : toISOString(t) = s

\* JSON.stringify(this.translationCache)
stringifyCache(cache) ==
    [k \in DOMAIN cache |->
        [translation |-> cache[k].translation,
         confidence  |-> cache[k].confidence,
         timestamp   |-> toISOString(cache[k].timestamp)]]

\* JSON.parse of the stored cache, timestamps converted back to Date
parseCache(stored) ==
    [k \in DOMAIN stored |->
        [translation |-> stored[k].translation,
         confidence  |-> stored[k].confidence,
         timestamp   |-> DateParse(stored[k].timestamp)]]

\* the mutable state the methods work on
State == [isDownloaded     |-> isDownloaded,
          dictionary       |-> dictionary,
          translationCache |-> translationCache,
          localStorage     |-> localStorage]

Becomes(st) ==
    /\ isDownloaded' = st.isDownloaded
    /\ dictionary' = st.dictionary
    /\ translationCache' = st.translationCache
    /\ localStorage' = st.localStorage

HasDictionary(b, langCode) ==
    langCode \in {"ne", "si"} \/ (langCode = "en" /\ b = Part002)

\* loadLanguageDictionary(langCode); the second build also marks the pack
\* downloaded and writes langPack_<code>_downloaded
loadLanguageDictionary(b, st, langCode) ==
    IF langCode \notin PackCodes(b) \/ ~HasDictionary(b, langCode) THEN st
    ELSE IF b = Services
    THEN [st EXCEPT !.dictionary[langCode] = dictionaries(b, langCode)]
    ELSE [st EXCEPT !.dictionary[langCode] = dictionaries(b, langCode),
                    !.isDownloaded[langCode] = TRUE,
                    !.localStorage.langPackDownloaded = @ \cup {langCode}]

\* saveLanguagePackStatus that writes the status of its own pack only,
\* without reading the stored item first
saveLanguagePackStatus_WriteOnly(st, langCode, value) ==
    IF st.localStorage.languagePackStatus.kind = "corrupt"
    THEN [threw |-> TRUE, st |-> st]
    ELSE [threw |-> FALSE,
          st |-> [st EXCEPT !.localStorage.languagePackStatus =
                     JsonItem(langCode :> value)]]

\* saveLanguagePackStatus(langCode, value): JSON.parse throws on an
\* unparsable item
saveLanguagePackStatus(st, langCode, value) ==
    IF st.localStorage.languagePackStatus.kind = "corrupt"
    THEN [threw |-> TRUE, st |-> st]
    ELSE [threw |-> FALSE,
          st |-> [st EXCEPT !.localStorage.languagePackStatus =
                     JsonItem(PutKey(@.val, langCode, value))]]

\* saveCacheToStorage()
saveCacheToStorage(st) ==
    [st EXCEPT !.localStorage.offlineTranslationCache =
        JsonItem(stringifyCache(st.translationCache))]

\* isLanguagePackDownloaded(langCode): the result, and the state after it
isLanguagePackDownloaded(b, st, langCode) ==
    IF b = Services
    THEN [ret |-> langCode \in PackCodes(b) /\ st.isDownloaded[langCode],
          st |-> st]
    ELSE IF langCode \in st.localStorage.langPackDownloaded
    THEN [ret |-> TRUE, st |-> st]
    ELSE IF langCode \in PackCodes(b) /\ st.isDownloaded[langCode]
    THEN [ret |-> TRUE,
          st |-> [st EXCEPT !.localStorage.langPackDownloaded = @ \cup {langCode}]]
    ELSE [ret |-> FALSE, st |-> st]

\* loadCachedTranslations(): one try block around the cache and the status
loadCachedTranslations(b, st) ==
    LET ls         == st.localStorage
        cacheRead  == ls.offlineTranslationCache.kind # "corrupt"
        withCache  == IF ls.offlineTranslationCache.kind = "json"
                      THEN [st EXCEPT !.translationCache =
                               parseCache(ls.offlineTranslationCache.val)]
                      ELSE st
        status     == ls.languagePackStatus.val
        marked     == IF cacheRead /\ ls.languagePackStatus.kind = "json"
                      THEN {c \in DOMAIN status \cap PackCodes(b) : status[c]}
                      ELSE {}
        RECURSIVE loadAll(_, _)
        loadAll(s, codes) ==
            IF codes = {} THEN s
            ELSE LET c == CHOOSE x \in codes : TRUE
                 IN  loadAll(loadLanguageDictionary(b,
                                 [s EXCEPT !.isDownloaded[c] = TRUE], c),
                             codes \ {c})
    IN  loadAll(withCache, marked)

\* preloadAllDictionaries() of the second build
preloadAllDictionaries(b, st) ==
    loadLanguageDictionary(b,
        loadLanguageDictionary(b, loadLanguageDictionary(b, st, "en"), "ne"),
        "si")

\* new OfflineTranslationService() over the storage ls
Constructor(b, ls) ==
    LET fresh  == [isDownloaded     |-> [c \in PackCodes(b) |-> InitiallyDownloaded(b, c)],
                   dictionary       |-> [c \in PackCodes(b) |-> EmptyMap],
                   translationCache |-> EmptyObject,
                   localStorage     |-> ls]
        loaded == loadCachedTranslations(b, fresh)
    IN  IF b = Services THEN loaded ELSE preloadAllDictionaries(b, loaded)

NoCall == [op |-> "none", threw |-> FALSE, value |-> ""]

Returned(op, value) == [op |-> op, threw |-> FALSE, value |-> value]

Threw(op, message) == [op |-> op, threw |-> TRUE, value |-> message]

\* no downloadLanguagePack call runs for a pack; concurrent and returned tell
\* of the call that ran last: whether another call ran during it, and what
\* it returned
Idle == [pc |-> "idle", i |-> 0, progress |-> -1, wasDownloaded |-> FALSE,
         concurrent |-> FALSE, returned |-> ""]

\* the storage of a browser that never ran the application
FreshStorage ==
    [languagePackStatus      |-> AbsentItem,
     offlineTranslationCache |-> AbsentItem,
     langPackDownloaded      |-> {}]

\* what the browser storage may hold when the page loads
InitialStorages ==
    [languagePackStatus      : {AbsentItem, CorruptItem,
                                JsonItem("ne" :> TRUE)},
     offlineTranslationCache : {AbsentItem, CorruptItem},
     langPackDownloaded      : {{}}]

InitOffline ==
    /\ build \in Builds
    /\ now = 0
    /\ \E ls \in InitialStorages :
          LET st == Constructor(build, ls)
          IN  /\ isDownloaded = st.isDownloaded
              /\ dictionary = st.dictionary
              /\ translationCache = st.translationCache
              /\ localStorage = st.localStorage
    /\ download = [c \in PackCodes(build) |-> Idle]
    /\ lastCall = NoCall
    /\ fbText = "" /\ fbSrc = "en" /\ fbTgt = "en"
    /\ fbResult = NotCalled /\ fbDone = TRUE
    /\ InitPageVars
    /\ InitAsyncVars

InitFallback ==
    /\ fbSrc \in SourceLangs
    /\ fbTgt \in TargetLangs
    /\ fbText \in Texts(fbSrc)
    /\ fbResult = NotCalled
    /\ fbDone = FALSE
    /\ build = Services
    /\ now = 0
    /\ isDownloaded = Constructor(Services, FreshStorage).isDownloaded
    /\ dictionary = Constructor(Services, FreshStorage).dictionary
    /\ translationCache = EmptyObject
    /\ localStorage = FreshStorage
    /\ download = [c \in PackCodes(Services) |-> Idle]
    /\ lastCall = NoCall
    /\ InitPageVars
    /\ InitAsyncVars

\* await fallbackTranslationService.translate(text, sourceLang, targetLang)
FbTranslate ==
    /\ ~fbDone
    /\ fbResult' = translate(fbText, fbSrc, fbTgt)
    /\ fbDone' = TRUE
    /\ UNCHANGED <<fbText, fbSrc, fbTgt>>
    /\ UNCHANGED offVars
    /\ UNCHANGED pageVars
    /\ UNCHANGED asyncVars

NextFallback == FbTranslate

vars == <<fbText, fbSrc, fbTgt, fbResult, fbDone,
          build, isDownloaded, dictionary, translationCache, localStorage,
          now, download, lastCall, page, onLine, onlineCall,
          translating, removing, microtasks>>

SpecFallback == InitFallback /\ [][NextFallback]_vars

\* the calls of translate for the pairs with pattern rules (en-ne, ne-en)
\* and for a pair without a rule set (en-hi)
PatternPairs == {<<"en", "ne">>, <<"ne", "en">>, <<"en", "hi">>}

PatternPieces(lang) ==
    IF lang = "ne"
    THEN {"yo ", "mero naam ", "ma ", "paani", " ho", " hun", "|", " ", "$&", "\n"}
    ELSE {"hello, ", "this is ", "My name is ", "i am ", "how are you",
          "Sam", "$$", " ", ".", "?", "\n"}

MaxPatternPieces == 3

RECURSIVE PatternTextsUpTo(_, _)
PatternTextsUpTo(lang, n) ==
    IF n = 0 THEN {""}
    ELSE LET shorter == PatternTextsUpTo(lang, n - 1)
         IN  shorter \cup {t \o p : t \in shorter, p \in PatternPieces(lang)}

PatternTexts(lang) == PatternTextsUpTo(lang, MaxPatternPieces)

InitPattern ==
    /\ \E pair \in PatternPairs : fbSrc = pair[1] /\ fbTgt = pair[2]
    /\ fbText \in PatternTexts(fbSrc)
    /\ fbResult = NotCalled
    /\ fbDone = FALSE
    /\ build = Services
    /\ now = 0
    /\ isDownloaded = Constructor(Services, FreshStorage).isDownloaded
    /\ dictionary = Constructor(Services, FreshStorage).dictionary
    /\ translationCache = EmptyObject
    /\ localStorage = FreshStorage
    /\ download = [c \in PackCodes(Services) |-> Idle]
    /\ lastCall = NoCall
    /\ InitPageVars
    /\ InitAsyncVars

SpecPattern == InitPattern /\ [][NextFallback]_vars

\* the word translators of the extended pack manager as functions of their
\* own: the tokens are dictionary words, compounds of two of them, words
\* with an affix, the halves of a phrase and words the dictionary lacks
WordTokens(lang) ==
    IF lang = "ne"
    THEN {"paani", "paaniho", "hopaani", "paanix", "xyz", "mero", "naam",
          "constructor", "paaniconstructor"}
    ELSE {"watura", "waturastuutiyi", "sinhalax", "xyz", "constructor",
          "waturaconstructor"}

MaxWordTokens == 3

RECURSIVE WordTextsUpTo(_, _)
WordTextsUpTo(lang, n) ==
    IF n = 1 THEN WordTokens(lang)
    ELSE WordTextsUpTo(lang, n - 1) \cup
         { t \o " " \o w : t \in WordTextsUpTo(lang, n - 1), w \in WordTokens(lang) }

WordTexts(lang) == WordTextsUpTo(lang, MaxWordTokens)

InitWords ==
    /\ fbSrc \in {"ne", "si"}
    /\ fbTgt = "en"
    /\ fbText \in WordTexts(fbSrc)
    /\ fbResult = NotCalled
    /\ fbDone = FALSE
    /\ build = Part002
    /\ now = 0
    /\ isDownloaded = Constructor(Part002, FreshStorage).isDownloaded
    /\ dictionary = Constructor(Part002, FreshStorage).dictionary
    /\ translationCache = EmptyObject
    /\ localStorage = FreshStorage
    /\ download = [c \in PackCodes(Part002) |-> Idle]
    /\ lastCall = NoCall
    /\ InitPageVars
    /\ InitAsyncVars

\* this.translateNepaliWordsToEnglish(text, neToEnDict) and
\* this.translateSinhalaWordsToEnglish(text, siToEnDict)
TranslateWords ==
    /\ ~fbDone
    /\ fbResult' = IF fbSrc = "ne"
                   THEN translateNepaliWordsToEnglish(fbText, neToEnDict)
                   ELSE translateSinhalaWordsToEnglish(fbText, siToEnDict)
    /\ fbDone' = TRUE
    /\ UNCHANGED <<fbText, fbSrc, fbTgt>>
    /\ UNCHANGED offVars
    /\ UNCHANGED pageVars
    /\ UNCHANGED asyncVars

NextWords == TranslateWords

SpecWords == InitWords /\ [][NextWords]_vars

\* translateOffline that looks the text up in the cache before it asks for
\* the pack
translateOffline_CacheFirst(st, t, text, sourceLang, targetLang) ==
    LET cacheKey    == sourceLang \o "-" \o targetLang \o "-" \o text
        cache       == st.translationCache
        recent      == /\ cacheKey \in DOMAIN cache
                       /\ t - cache[cacheKey].timestamp < TTL
        direct      == performDictionaryTranslation(text, st.dictionary[sourceLang])
        translation == IF direct = text
                       THEN performPhraseTranslation(text, st.dictionary[sourceLang])
                       ELSE direct
        entry       == [translation |-> translation,
                        confidence  |-> IF translation = text THEN 30 ELSE 80,
                        timestamp   |-> t]
    IN  IF recent
        THEN [threw |-> FALSE, value |-> cache[cacheKey].translation, st |-> st]
        ELSE IF ~isLanguagePackDownloaded(Services, st, sourceLang).ret
        THEN [threw |-> TRUE,
              value |-> "Language pack not downloaded: " \o sourceLang,
              st    |-> st]
        ELSE [threw |-> FALSE, value |-> translation,
              st    |-> saveCacheToStorage(
                          [st EXCEPT !.translationCache =
                               PutKey(@, cacheKey, entry)])]

\* services/OfflineTranslation.ts: translateOffline(text, sourceLang,
\* targetLang) at time t.  confidence is in hundredths.
translateOffline(st, t, text, sourceLang, targetLang) ==
    LET cacheKey    == sourceLang \o "-" \o targetLang \o "-" \o text
        cache       == st.translationCache
        recent      == /\ cacheKey \in DOMAIN cache
                       /\ t - cache[cacheKey].timestamp < TTL
        direct      == performDictionaryTranslation(text, st.dictionary[sourceLang])
        translation == IF direct = text
                       THEN performPhraseTranslation(text, st.dictionary[sourceLang])
                       ELSE direct
        entry       == [translation |-> translation,
                        confidence  |-> IF translation = text THEN 30 ELSE 80,
                        timestamp   |-> t]
    IN  IF ~isLanguagePackDownloaded(Services, st, sourceLang).ret
        THEN [threw |-> TRUE,
              value |-> "Language pack not downloaded: " \o sourceLang,
              st    |-> st]
        ELSE IF recent
        THEN [threw |-> FALSE, value |-> cache[cacheKey].translation, st |-> st]
        ELSE [threw |-> FALSE, value |-> translation,
              st    |-> saveCacheToStorage(
                          [st EXCEPT !.translationCache =
                               PutKey(@, cacheKey, entry)])]

\* the words of the inputs that are written in Devanagari, and in Sinhala
\* script
DevanagariWords == {"namaste", "dhanyavaad", "khaana", "mitho", "paani"}
SinhalaWords == {"aayuboowan", "stuutiyi", "watura"}

\* detectLanguage(text): the script of the first 100 characters
detectLanguage(text) ==
    LET sample == SubSeq(text, 1, IF Len(text) < 100 THEN Len(text) ELSE 100)
    IN  IF \E w \in DevanagariWords : includes(sample, w) THEN "ne"
        ELSE IF \E w \in SinhalaWords : includes(sample, w) THEN "si"
        ELSE "en"

\* translateOffline of the extended pack manager with the cache looked up
\* before the hardcoded table
translateOffline_Part002_CacheFirst(st, t, text, sourceLang, targetLang) ==
    LET hardcodedTranslation == getHardcodedTranslation(text, sourceLang)
        \* sourceLang after the auto-detection
        detected       == IF sourceLang = "auto" THEN detectLanguage(text)
                          ELSE sourceLang
        translationKey == detected \o "-" \o targetLang
        cacheKey       == text \o "_" \o detected \o "_" \o targetLang
        ret(value, s)  == [threw |-> FALSE, value |-> value, st |-> s]
        cached(s, value, confidence) ==
            ret(value,
                [s EXCEPT !.translationCache =
                    PutKey(@, cacheKey, [translation |-> value,
                                         confidence  |-> confidence,
                                         timestamp   |-> t])])
        forced(s, lang) ==
            LET r == isLanguagePackDownloaded(Part002, s, lang)
            IN  IF r.ret THEN r.st
                ELSE loadLanguageDictionary(Part002, r.st, lang)
        loaded         == forced(forced(st, detected), targetLang)
        sourcePackDownloaded ==
            detected \in PackCodes(Part002) /\ loaded.isDownloaded[detected]
        dict           == loaded.dictionary[detected]
        exactMatch     == MapGet(dict, trim(text))
        word(w)        == LET found == MapGet(dict, w)
                          IN  IF Truthy(found) THEN found ELSE w
    IN  IF cacheKey \in DOMAIN st.translationCache
        THEN ret(st.translationCache[cacheKey].translation, st)
        ELSE IF hardcodedTranslation # Null THEN ret(hardcodedTranslation, st)
        ELSE IF detected = targetLang THEN ret(text, st)
        ELSE IF translationKey = "en-ne"
        THEN cached(st, translateEnglishToNepali(text), 90)
        ELSE IF translationKey = "en-si"
        THEN cached(st, translateEnglishToSinhala(text), 90)
        ELSE IF ~sourcePackDownloaded
        THEN IF detected = "ne"
             THEN cached(loaded, translateNepaliToEnglish(text), 85)
             ELSE IF detected = "si"
             THEN cached(loaded, translateSinhalaToEnglish(text), 85)
             ELSE ret("[Offline Translation Not Available] " \o text, loaded)
        ELSE IF Len(dict) > 0
        THEN IF Truthy(exactMatch) THEN cached(loaded, exactMatch, 100)
             ELSE cached(loaded,
                         join(MapWords(splitWhitespace(text), word), " "), 70)
        ELSE IF detected = "ne"
        THEN cached(loaded, translateNepaliToEnglish(text), 80)
        ELSE IF detected = "si"
        THEN cached(loaded, translateSinhalaToEnglish(text), 80)
        ELSE cached(loaded, "[Offline Translation] " \o text, 50)

\* the second build: translateOffline(text, sourceLang, targetLang) at time t
translateOffline_Part002(st, t, text, sourceLang, targetLang) ==
    LET hardcodedTranslation == getHardcodedTranslation(text, sourceLang)
        \* sourceLang after the auto-detection
        detected       == IF sourceLang = "auto" THEN detectLanguage(text)
                          ELSE sourceLang
        translationKey == detected \o "-" \o targetLang
        cacheKey       == text \o "_" \o detected \o "_" \o targetLang
        ret(value, s)  == [threw |-> FALSE, value |-> value, st |-> s]
        cached(s, value, confidence) ==
            ret(value,
                [s EXCEPT !.translationCache =
                    PutKey(@, cacheKey, [translation |-> value,
                                         confidence  |-> confidence,
                                         timestamp   |-> t])])
        forced(s, lang) ==
            LET r == isLanguagePackDownloaded(Part002, s, lang)
            IN  IF r.ret THEN r.st
                ELSE loadLanguageDictionary(Part002, r.st, lang)
        loaded         == forced(forced(st, detected), targetLang)
        sourcePackDownloaded ==
            detected \in PackCodes(Part002) /\ loaded.isDownloaded[detected]
        dict           == loaded.dictionary[detected]
        exactMatch     == MapGet(dict, trim(text))
        word(w)        == LET found == MapGet(dict, w)
                          IN  IF Truthy(found) THEN found ELSE w
    IN  IF hardcodedTranslation # Null THEN ret(hardcodedTranslation, st)
        ELSE IF detected = targetLang THEN ret(text, st)
        ELSE IF cacheKey \in DOMAIN st.translationCache
        THEN ret(st.translationCache[cacheKey].translation, st)
        ELSE IF translationKey = "en-ne"
        THEN cached(st, translateEnglishToNepali(text), 90)
        ELSE IF translationKey = "en-si"
        THEN cached(st, translateEnglishToSinhala(text), 90)
        ELSE IF ~sourcePackDownloaded
        THEN IF detected = "ne"
             THEN cached(loaded, translateNepaliToEnglish(text), 85)
             ELSE IF detected = "si"
             THEN cached(loaded, translateSinhalaToEnglish(text), 85)
             ELSE ret("[Offline Translation Not Available] " \o text, loaded)
        ELSE IF Len(dict) > 0
        THEN IF Truthy(exactMatch) THEN cached(loaded, exactMatch, 100)
             ELSE cached(loaded,
                         join(MapWords(splitWhitespace(text), word), " "), 70)
        ELSE IF detected = "ne"
        THEN cached(loaded, translateNepaliToEnglish(text), 80)
        ELSE IF detected = "si"
        THEN cached(loaded, translateSinhalaToEnglish(text), 80)
        ELSE cached(loaded, "[Offline Translation] " \o text, 50)

\* the key under which the build caches a call
CacheKey(b, text, sourceLang, targetLang) ==
    IF b = Services
    THEN sourceLang \o "-" \o targetLang \o "-" \o text
    ELSE text \o "_" \o sourceLang \o "_" \o targetLang

(***************************************************************************)
(* The operations.  A handler runs to its next timer without interleaving: *)
(* the awaits inside it resume in microtasks of the same task.             *)
(***************************************************************************)

ActiveDownloads == {c \in DOMAIN download : download[c].pc = "loop"}

\* downloadLanguagePack with the pack lookup inside the try block: the catch
\* block turns the error into the result false
DownloadLanguagePack_LookupInsideTry(langCode) ==
    /\ langCode \notin PackCodes(build)
    /\ lastCall' = Returned("downloadLanguagePack", "false")
    /\ UNCHANGED <<fbVars, asyncVars, pageVars, build, isDownloaded, dictionary, translationCache,
                   localStorage, now, download>>

\* the calls in progress when a call for langCode starts
startLoop(langCode) ==
    [c \in DOMAIN download |->
        IF c = langCode
        THEN [pc |-> "loop", i |-> 0, progress |-> -1,
              wasDownloaded |-> isDownloaded[langCode],
              concurrent |-> \E d \in DOMAIN download : download[d].pc = "loop",
              returned |-> ""]
        ELSE IF download[c].pc = "loop"
        THEN [download[c] EXCEPT !.concurrent = TRUE]
        ELSE download[c]]

\* downloadLanguagePack(langCode, onProgress), up to the first timer
DownloadLanguagePack(langCode) ==
    IF langCode \notin PackCodes(build)
    THEN /\ lastCall' = Threw("downloadLanguagePack", "Language pack not found: " \o langCode)
         /\ UNCHANGED <<fbVars, asyncVars, pageVars, build, isDownloaded, dictionary, translationCache,
                        localStorage, now, download>>
    ELSE /\ download[langCode].pc = "idle"
         /\ Cardinality(ActiveDownloads) < MaxActiveDownloads
         /\ download' = startLoop(langCode)
         /\ UNCHANGED <<fbVars, asyncVars, pageVars, build, isDownloaded, dictionary, translationCache,
                        localStorage, now, lastCall>>

\* one iteration of the loop: onProgress((i / totalSteps) * 100), i < totalSteps.
\* In double arithmetic the value differs from the exact quotient by less
\* than 10^-13 for some i (7.000000000000001 for i = 7 of 100); the values
\* are ordered as the exact quotients are, which is what progress records.
DownloadProgress(langCode) ==
    /\ download[langCode].pc = "loop"
    /\ download[langCode].i < totalSteps(build)
    /\ download' = [download EXCEPT
                       ![langCode].progress = (download[langCode].i * 100) \div totalSteps(build),
                       ![langCode].i = @ + 1]
    /\ UNCHANGED <<fbVars, asyncVars, pageVars, build, isDownloaded, dictionary, translationCache,
                   localStorage, now, lastCall>>

\* onProgress throws: the catch block returns false
DownloadCallbackThrows(langCode) ==
    /\ download[langCode].pc = "loop"
    /\ download' = [download EXCEPT
                       ![langCode] = Idle]
    /\ lastCall' = Returned("downloadLanguagePack", "false")
    /\ UNCHANGED <<fbVars, asyncVars, pageVars, build, isDownloaded, dictionary, translationCache,
                   localStorage, now>>

\* the last iteration, onProgress(100), and the rest of the try block
DownloadComplete(langCode) ==
    /\ download[langCode].pc = "loop"
    /\ download[langCode].i = totalSteps(build)
    /\ LET withDict == loadLanguageDictionary(build, State, langCode)
           marked   == [withDict EXCEPT
                           !.isDownloaded[langCode] = TRUE,
                           !.localStorage.langPackDownloaded =
                               IF build = Part002 THEN @ \cup {langCode} ELSE @]
           saved    == saveLanguagePackStatus(marked, langCode, TRUE)
       IN  /\ Becomes(saved.st)
           /\ lastCall' = Returned("downloadLanguagePack", IF saved.threw THEN "false" ELSE "true")
           /\ download' = [download EXCEPT ![langCode] =
                  [Idle EXCEPT !.progress = 100,
                               !.concurrent = download[langCode].concurrent,
                               !.returned = IF saved.threw THEN "false" ELSE "true"]]
    /\ UNCHANGED <<fbVars, asyncVars, pageVars, build, now>>

\* removeLanguagePack(langCode)
RemoveLanguagePack(langCode) ==
    LET cleared == [State EXCEPT !.isDownloaded[langCode] = FALSE,
                                 !.dictionary[langCode] = EmptyMap]
        saved   == saveLanguagePackStatus(cleared, langCode, FALSE)
        related(key) == startsWith(key, langCode \o "-")
        pruned  == saveCacheToStorage(
                       [saved.st EXCEPT !.translationCache =
                            DeleteKeys(@, related)])
    IN  /\ IF langCode \notin PackCodes(build)
           THEN /\ lastCall' = Returned("removeLanguagePack", "false")
                /\ UNCHANGED <<isDownloaded, dictionary, translationCache,
                               localStorage>>
           ELSE IF saved.threw
           THEN /\ Becomes(saved.st)
                /\ lastCall' = Returned("removeLanguagePack", "false")
           ELSE /\ Becomes(pruned)
                /\ lastCall' = Returned("removeLanguagePack", "true")
        /\ UNCHANGED <<fbVars, asyncVars, pageVars, build, now, download>>

\* pack.size of initializeLanguagePacks, in tenths of a megabyte
size(langCode) ==
    CASE langCode = "ne" -> 155
      [] langCode = "si" -> 123
      [] langCode = "en" -> 50

\* packs.reduce((sum, pack) => sum + pack.size, 0)
RECURSIVE sumOfSizes(_)
sumOfSizes(packs) ==
    IF Len(packs) = 0 THEN 0
    ELSE size(Head(packs)) + sumOfSizes(Tail(packs))

\* getAvailableLanguagePacks(): the packs, by code, in insertion order
getAvailableLanguagePacks(b) == initializeLanguagePacks(b)

\* getStorageInfo()
getStorageInfo(b, st) ==
    LET packs            == getAvailableLanguagePacks(b)
        isInstalled(c)   == st.isDownloaded[c]
        downloadedPacks  == SelectSeq(packs, isInstalled)
    IN  [totalSize       |-> sumOfSizes(packs),
         usedSize        |-> sumOfSizes(downloadedPacks),
         availablePacks  |-> Len(packs),
         downloadedPacks |-> Len(downloadedPacks)]

\* the outcome of translateOffline in the running build
translateOfflineOutcome(text, sourceLang, targetLang) ==
    IF build = Services
    THEN translateOffline(State, now, text, sourceLang, targetLang)
    ELSE translateOffline_Part002(State, now, text, sourceLang, targetLang)

\* await offlineTranslationService.translateOffline(text, sourceLang, targetLang)
TranslateOffline(text, sourceLang, targetLang) ==
    LET r == translateOfflineOutcome(text, sourceLang, targetLang)
    IN  /\ Becomes(r.st)
        /\ lastCall' = [op    |-> "translateOffline",
                        threw |-> r.threw,
                        value |-> r.value]
        /\ UNCHANGED <<fbVars, asyncVars, pageVars, build, now, download>>

\* offlineTranslationService.isLanguagePackDownloaded(langCode)
IsLanguagePackDownloaded(langCode) ==
    LET r == isLanguagePackDownloaded(build, State, langCode)
    IN  /\ Becomes(r.st)
        /\ lastCall' = Returned("isLanguagePackDownloaded", IF r.ret THEN "true" ELSE "false")
        /\ UNCHANGED <<fbVars, asyncVars, pageVars, build, now, download>>

\* clearOfflineData()
ClearOfflineData ==
    /\ translationCache' = EmptyObject
    /\ isDownloaded' = [c \in DOMAIN isDownloaded |-> FALSE]
    /\ dictionary' = [c \in DOMAIN dictionary |-> EmptyMap]
    /\ localStorage' = [localStorage EXCEPT
                           !.offlineTranslationCache = AbsentItem,
                           !.languagePackStatus = AbsentItem]
    /\ lastCall' = Returned("clearOfflineData", "")
    /\ UNCHANGED <<fbVars, asyncVars, pageVars, build, now, download>>

\* the page is reloaded: a new singleton is constructed over the storage,
\* and the calls that were in progress are gone
Restart ==
    /\ Becomes(Constructor(build, localStorage))
    /\ download' = [c \in PackCodes(build) |-> Idle]
    /\ lastCall' = NoCall
    /\ UNCHANGED <<fbVars, asyncVars, pageVars, build, now>>

\* time passes
Tick ==
    /\ \E d \in Elapse : now + d <= MaxClock /\ now' = now + d
    /\ UNCHANGED <<fbVars, asyncVars, pageVars, build, isDownloaded, dictionary, translationCache,
                   localStorage, download, lastCall>>

NextOffline ==
    \/ \E l \in LangCodes : DownloadLanguagePack(l)
    \/ \E l \in PackCodes(build) : DownloadProgress(l)
    \/ \E l \in PackCodes(build) : DownloadCallbackThrows(l)
    \/ \E l \in PackCodes(build) : DownloadComplete(l)
    \/ \E l \in LangCodes : RemoveLanguagePack(l)
    \/ \E c \in OfflineCalls : TranslateOffline(c[1], c[2], c[3])
    \/ \E l \in LangCodes : IsLanguagePackDownloaded(l)
    \/ ClearOfflineData
    \/ Restart

SpecOffline == InitOffline /\ [][NextOffline]_vars

\* the calls that read and write the cache, as time passes
NextCache ==
    \/ \E c \in OfflineCalls : TranslateOffline(c[1], c[2], c[3])
    \/ \E l \in LangCodes : RemoveLanguagePack(l)
    \/ ClearOfflineData
    \/ Restart
    \/ Tick

SpecCache == InitOffline /\ [][NextCache]_vars

\* the service constructed over the storage of a browser that never ran the
\* application (the constructor leaves both JSON items as it found them)
InitEmptyStorage ==
    /\ InitOffline
    /\ localStorage.languagePackStatus = AbsentItem
    /\ localStorage.offlineTranslationCache = AbsentItem

SpecLifecycle == InitEmptyStorage /\ [][NextOffline]_vars

\* the language codes that have no pack in the running build
UnknownCodes == LangCodes \ PackCodes(build)

\* the calls that settle at once, downloadLanguagePack for the codes it
\* rejects
NextCalls ==
    \/ \E l \in UnknownCodes : DownloadLanguagePack(l)
    \/ \E l \in LangCodes : RemoveLanguagePack(l)
    \/ \E l \in LangCodes : IsLanguagePackDownloaded(l)
    \/ \E c \in OfflineCalls : TranslateOffline(c[1], c[2], c[3])
    \/ ClearOfflineData
    \/ Restart

SpecCalls == InitOffline /\ [][NextCalls]_vars

\* the calls of the extended pack manager that meet the table of hardcoded
\* translations, with the calls that take every other way past it
HardcodedCalls ==
    { <<"namaste", "ne", "en">>, <<"namaste", "ne", "ne">>,
      <<"namaste", "auto", "en">>, <<"namaste", "si", "en">>,
      <<"khaana mitho", "ne", "en">>, <<"aayuboowan", "si", "en">>,
      <<"dhanyavaad", "ne", "en">> }

InitHardcoded == InitEmptyStorage /\ build = Part002

NextHardcoded ==
    \/ \E c \in HardcodedCalls : TranslateOffline(c[1], c[2], c[3])
    \/ \E l \in LangCodes : RemoveLanguagePack(l)
    \/ ClearOfflineData
    \/ Restart

SpecHardcoded == InitHardcoded /\ [][NextHardcoded]_vars

\* the calls of translateOffline by the way the translation is obtained: an
\* exact dictionary match, word by word, a text the dictionary knows nothing
\* of, an English text and a target language without a pack
ConfidenceCalls ==
    { <<"dhanyavaad", "ne", "en">>, <<"dhanyavaad xyz", "ne", "en">>,
      <<"xyz", "ne", "en">>, <<"hello", "en", "ne">>, <<"xyz", "en", "xx">> }

NextConfidence ==
    \/ \E c \in ConfidenceCalls : TranslateOffline(c[1], c[2], c[3])
    \/ \E l \in LangCodes : RemoveLanguagePack(l)
    \/ ClearOfflineData
    \/ Restart

SpecConfidence == InitOffline /\ [][NextConfidence]_vars

(***************************************************************************)
(* translateOffline and removeLanguagePack of services/OfflineTranslation  *)
(* step by step.  Each await of a call suspends it and puts its            *)
(* continuation at the end of the microtask queue; an async method that    *)
(* is awaited runs its body, which has no await, within the calling step.  *)
(***************************************************************************)

\* the calls of translateOffline that run while a pack is removed
RacingCalls ==
    { <<"dhanyavaad", "ne", "en">>, <<"dhanyavaad xyz", "ne", "en">>,
      <<"xyz", "ne", "en">> }

\* the entry translateOffline caches for a translation at time t
cacheEntry(text, translation, t) ==
    [translation |-> translation,
     confidence  |-> IF translation = text THEN 30 ELSE 80,
     timestamp   |-> t]

\* translateOffline from "Cache the translation" to await saveCacheToStorage()
cacheTranslation(st, t, call, translation) ==
    saveCacheToStorage(
        [st EXCEPT !.translationCache =
            PutKey(@, CacheKey(Services, call.text, call.sourceLang,
                               call.targetLang),
                   cacheEntry(call.text, translation, t))])

\* translateOffline(text, sourceLang, targetLang) is called: the checks, the
\* cache lookup and performDictionaryTranslation, up to the first await
StartTranslateOffline(text, sourceLang, targetLang) ==
    LET cacheKey == CacheKey(Services, text, sourceLang, targetLang)
        recent   == /\ cacheKey \in DOMAIN translationCache
                    /\ now - translationCache[cacheKey].timestamp < TTL
    IN  /\ build = Services
        /\ translating.pc = "idle"
        /\ IF ~isLanguagePackDownloaded(Services, State, sourceLang).ret
           THEN /\ lastCall' = Threw("translateOffline",
                                     "Language pack not downloaded: " \o sourceLang)
                /\ UNCHANGED <<translating, microtasks>>
           ELSE IF recent
           THEN /\ lastCall' = Returned("translateOffline",
                                        translationCache[cacheKey].translation)
                /\ UNCHANGED <<translating, microtasks>>
           ELSE /\ translating' =
                       [pc |-> "awaitDictionary", text |-> text,
                        sourceLang |-> sourceLang, targetLang |-> targetLang,
                        translation |->
                            performDictionaryTranslation(text, dictionary[sourceLang])]
                /\ microtasks' = Append(microtasks, "translateOffline")
                /\ UNCHANGED lastCall
        /\ UNCHANGED <<fbVars, pageVars, build, isDownloaded, dictionary,
                       translationCache, localStorage, now, download, removing>>

\* translateOffline goes on after an await
ResumeTranslateOffline ==
    /\ microtasks # <<>> /\ Head(microtasks) = "translateOffline"
    /\ CASE translating.pc = "awaitDictionary" /\ translating.translation = translating.text ->
              /\ translating' =
                     [translating EXCEPT
                         !.pc = "awaitPhrase",
                         !.translation = performPhraseTranslation(
                                             translating.text,
                                             dictionary[translating.sourceLang])]
              /\ microtasks' = Append(Tail(microtasks), "translateOffline")
              /\ UNCHANGED <<isDownloaded, dictionary, translationCache,
                             localStorage, lastCall>>
         [] translating.pc = "awaitPhrase"
            \/ ( translating.pc = "awaitDictionary"
                 /\ translating.translation # translating.text ) ->
              /\ Becomes(cacheTranslation(State, now, translating,
                                          translating.translation))
              /\ translating' = [translating EXCEPT !.pc = "awaitSave"]
              /\ microtasks' = Append(Tail(microtasks), "translateOffline")
              /\ UNCHANGED lastCall
         [] translating.pc = "awaitSave" ->
              /\ lastCall' = Returned("translateOffline", translating.translation)
              /\ translating' = NotTranslating
              /\ microtasks' = Tail(microtasks)
              /\ UNCHANGED <<isDownloaded, dictionary, translationCache,
                             localStorage>>
    /\ UNCHANGED <<fbVars, pageVars, build, now, download, removing>>

\* removeLanguagePack(langCode) is called: up to the first await
StartRemoveLanguagePack(langCode) ==
    LET cleared == [State EXCEPT !.isDownloaded[langCode] = FALSE,
                                 !.dictionary[langCode] = EmptyMap]
        saved   == saveLanguagePackStatus(cleared, langCode, FALSE)
    IN  /\ build = Services
        /\ removing.pc = "idle"
        /\ IF langCode \notin PackCodes(build)
           THEN /\ lastCall' = Returned("removeLanguagePack", "false")
                /\ UNCHANGED <<isDownloaded, dictionary, translationCache,
                               localStorage, removing, microtasks>>
           ELSE /\ Becomes(saved.st)
                /\ removing' =
                       [pc |-> "awaitStatus", langCode |-> langCode,
                        threw |-> saved.threw,
                        overlapped |-> /\ translating.pc # "idle"
                                       /\ translating.sourceLang = langCode]
                /\ microtasks' = Append(microtasks, "removeLanguagePack")
                /\ UNCHANGED lastCall
        /\ UNCHANGED <<fbVars, pageVars, build, now, download, translating>>

\* removeLanguagePack goes on after an await
ResumeRemoveLanguagePack ==
    LET related(key) == startsWith(key, removing.langCode \o "-")
        pruned == saveCacheToStorage(
                      [State EXCEPT !.translationCache = DeleteKeys(@, related)])
    IN  /\ microtasks # <<>> /\ Head(microtasks) = "removeLanguagePack"
        /\ CASE removing.pc = "awaitStatus" /\ removing.threw ->
                  /\ lastCall' = Returned("removeLanguagePack", "false")
                  /\ removing' = [removing EXCEPT !.pc = "idle"]
                  /\ microtasks' = Tail(microtasks)
                  /\ UNCHANGED <<isDownloaded, dictionary, translationCache,
                                 localStorage>>
             [] removing.pc = "awaitStatus" /\ ~removing.threw ->
                  /\ Becomes(pruned)
                  /\ removing' = [removing EXCEPT !.pc = "awaitSave"]
                  /\ microtasks' = Append(Tail(microtasks), "removeLanguagePack")
                  /\ UNCHANGED lastCall
             [] removing.pc = "awaitSave" ->
                  /\ lastCall' = Returned("removeLanguagePack", "true")
                  /\ removing' = [removing EXCEPT !.pc = "idle"]
                  /\ microtasks' = Tail(microtasks)
                  /\ UNCHANGED <<isDownloaded, dictionary, translationCache,
                                 localStorage>>
        /\ UNCHANGED <<fbVars, pageVars, build, now, download, translating>>

\* the service of services/OfflineTranslation.ts over a storage that holds
\* the status of an installed Nepali pack
InitAwaits ==
    /\ InitOffline
    /\ build = Services
    /\ localStorage.languagePackStatus = JsonItem("ne" :> TRUE)

NextAwaits ==
    \/ \E c \in RacingCalls : StartTranslateOffline(c[1], c[2], c[3])
    \/ ResumeTranslateOffline
    \/ \E l \in LangCodes : StartRemoveLanguagePack(l)
    \/ ResumeRemoveLanguagePack

SpecAwaits == InitAwaits /\ [][NextAwaits]_vars

\* downloadLanguagePack(langCode, onProgress) is called while another call
\* of it waits for a timer
DownloadAlongside(langCode) ==
    /\ langCode \in PackCodes(build)
    /\ download[langCode].pc = "idle"
    /\ ActiveDownloads # {}
    /\ download' = startLoop(langCode)
    /\ UNCHANGED <<fbVars, asyncVars, pageVars, build, isDownloaded, dictionary,
                   translationCache, localStorage, now, lastCall>>

\* the packs are installed, one call at a time or two at once
NextInstalls ==
    \/ \E l \in LangCodes : DownloadLanguagePack(l)
    \/ \E l \in LangCodes : DownloadAlongside(l)
    \/ \E l \in PackCodes(build) : DownloadProgress(l)
    \/ \E l \in PackCodes(build) : DownloadComplete(l)

SpecInstalls == InitOffline /\ [][NextInstalls]_vars

\* the cache of an earlier visit, as saveCacheToStorage left it
StoredCache ==
    JsonItem(stringifyCache(
        CacheKey(Services, "dhanyavaad", "ne", "en") :>
            [translation |-> "Thank you", confidence |-> 80, timestamp |-> 0]))

\* the storage of a browser that holds the cache of an earlier visit, with
\* the Nepali pack installed, removed or never recorded
StoragesWithCache ==
    [languagePackStatus      : {AbsentItem, JsonItem("ne" :> TRUE),
                                JsonItem("ne" :> FALSE)},
     offlineTranslationCache : {StoredCache},
     langPackDownloaded      : {{}}]

InitStartup ==
    /\ build = Services
    /\ now = 0
    /\ \E ls \in StoragesWithCache :
          LET st == Constructor(build, ls)
          IN  /\ isDownloaded = st.isDownloaded
              /\ dictionary = st.dictionary
              /\ translationCache = st.translationCache
              /\ localStorage = st.localStorage
    /\ download = [c \in PackCodes(build) |-> Idle]
    /\ lastCall = NoCall
    /\ fbText = "" /\ fbSrc = "en" /\ fbTgt = "en"
    /\ fbResult = NotCalled /\ fbDone = TRUE
    /\ InitPageVars
    /\ InitAsyncVars

SpecStartup == InitStartup /\ [][NextCache]_vars

(***************************************************************************)
(* The page Index: handleTranslate and the events around it.  The only     *)
(* await of handleTranslate that waits for the outside world is the fetch  *)
(* of onlineTranslationService.translate; what follows a response runs in  *)
(* the same step.                                                          *)
(***************************************************************************)

\* the texts typed into the page
PageTexts == {"  ", "constructor", "dhanyavaad"}

\* the source languages selected in the page
PageSourceLangs == {"ne", "fr"}

\* the tabs
Tabs == {"text", "offline"}

\* what a fetch of the endpoint ends with: a 2xx response whose translation
\* is the chunk itself or another text, a 2xx response without a
\* translation, another status, or a network error
Responses == {"echo", "translated", "noTranslation", "notOk", "networkError"}

\* a translation the endpoint returns for a chunk
RemoteTranslation(chunk) == "translated: " \o chunk

\* setTranslation(value).  React takes a function for an updater and stores
\* what it returns: Object(previous), which the textarea shows as the
\* previous text.
setTranslation(previous, value) ==
    IF value = NativeObject THEN previous ELSE value

\* the end of handleTranslate, from the tier's outcome on: the success toast,
\* or the outer catch block when the local fallback threw
finishTranslate(pg, translatedText, translationMethod) ==
    IF translatedText = TypeErrorThrown
    THEN [pg EXCEPT !.toast = "Translation failed", !.isLoading = FALSE]
    ELSE [pg EXCEPT !.translation = setTranslation(@, translatedText),
                    !.translationMethod = translationMethod,
                    !.toast = "Translation complete!",
                    !.isLoading = FALSE]

\* translateOffline of the running build on the state st
translateOfflineIn(st, text, sourceLang, targetLang) ==
    IF build = Services
    THEN translateOffline(st, now, text, sourceLang, targetLang)
    ELSE translateOffline_Part002(st, now, text, sourceLang, targetLang)

\* onlineTranslationService.translate(text, sourceLang, targetLang), up to
\* its first fetch
startOnlineCall(text, sourceLang, targetLang) ==
    [pc |-> "fetch", text |-> text, sourceLang |-> sourceLang,
     targetLang |-> targetLang, chunks |-> chunkText(text, maxLen),
     out |-> <<>>, result |-> ""]

\* onChange of the textarea, shown in the text tab
SetInputText(t) ==
    /\ page.activeTab = "text"
    /\ page' = [page EXCEPT !.inputText = t]
    /\ UNCHANGED <<fbVars, asyncVars, offVars, onLine, onlineCall>>

\* onValueChange of the source language select
SetSourceLang(l) ==
    /\ page' = [page EXCEPT !.sourceLang = l]
    /\ UNCHANGED <<fbVars, asyncVars, offVars, onLine, onlineCall>>

\* the tab buttons
SetActiveTab(tab) ==
    /\ page' = [page EXCEPT !.activeTab = tab]
    /\ UNCHANGED <<fbVars, asyncVars, offVars, onLine, onlineCall>>

\* clearAll
ClearAll ==
    /\ page' = [page EXCEPT !.inputText = "", !.translation = ""]
    /\ UNCHANGED <<fbVars, asyncVars, offVars, onLine, onlineCall>>

\* the device goes offline or online
NetworkChanges ==
    /\ onLine' = ~onLine
    /\ UNCHANGED <<fbVars, asyncVars, offVars, page, onlineCall>>

\* the offline tier of handleTranslate: offline is the outcome of
\* offlineTranslationService.translateOffline, and the catch block falls
\* back to the local dictionary
offlineTier(offline, text, src, tgt) ==
    /\ Becomes(offline.st)
    /\ lastCall' = [op    |-> "translateOffline",
                    threw |-> offline.threw,
                    value |-> offline.value]
    /\ page' = IF offline.threw
               THEN finishTranslate(page, translate(text, src, tgt),
                                    "Offline (Basic Dictionary)")
               ELSE finishTranslate(page, offline.value,
                                    "Offline (Downloaded Pack)")
    /\ UNCHANGED <<build, now, download, onlineCall>>

\* handleTranslate, up to its end or to the first fetch.  The button is shown
\* in the text tab and disabled while isLoading.
HandleTranslate ==
    /\ page.activeTab = "text"
    /\ ~page.isLoading
    /\ LET text == page.inputText
           src  == page.sourceLang
           tgt  == page.targetLang
           can  == isLanguagePackDownloaded(build, State, src)
           canUseOffline  == can.ret
           isDeviceOnline == onLine
           asked    == Returned("isLanguagePackDownloaded",
                                IF can.ret THEN "true" ELSE "false")
       IN  IF trim(text) = ""
           THEN /\ page' = [page EXCEPT !.toast = "Please enter some text"]
                /\ UNCHANGED <<offVars, onlineCall>>
           ELSE IF canUseOffline /\ (~isDeviceOnline \/ page.activeTab = "offline")
           THEN offlineTier(translateOfflineIn(can.st, text, src, tgt),
                            text, src, tgt)
           ELSE IF isDeviceOnline
           THEN /\ Becomes(can.st)
                /\ lastCall' = asked
                /\ page' = [page EXCEPT !.isLoading = TRUE]
                /\ onlineCall' = startOnlineCall(text, src, tgt)
                /\ UNCHANGED <<build, now, download>>
           ELSE /\ Becomes(can.st)
                /\ lastCall' = asked
                /\ page' = finishTranslate(page, translate(text, src, tgt),
                                           "Offline (Basic Dictionary)")
                /\ UNCHANGED <<build, now, download, onlineCall>>
    /\ UNCHANGED <<fbVars, asyncVars, onLine>>

\* a direct call of onlineTranslationService.translate
OnlineTranslate(text, sourceLang, targetLang) ==
    /\ onlineCall.pc # "fetch"
    /\ onlineCall' = startOnlineCall(text, sourceLang, targetLang)
    /\ UNCHANGED <<fbVars, asyncVars, offVars, page, onLine>>

\* the fetch of the current chunk ends, and the call goes on to its next
\* fetch, returns or throws; a handleTranslate that awaits it resumes
FetchResponds(response) ==
    /\ onlineCall.pc = "fetch"
    /\ LET chunk      == onlineCall.chunks[Len(onlineCall.out) + 1]
           ok         == response \in {"echo", "translated", "noTranslation"}
           translated == IF response = "translated"
                         THEN RemoteTranslation(chunk) ELSE chunk
           out        == Append(onlineCall.out, translated)
           settled    ==
               IF ok
               THEN [NoOnlineCall EXCEPT !.pc = "returned",
                                         !.result = join(out, "\n\n")]
               ELSE [NoOnlineCall EXCEPT !.pc = "threw",
                                         !.result = IF response = "notOk"
                                                    THEN "Online translation failed: 500"
                                                    ELSE "Failed to fetch"]
       IN  IF ok /\ Len(out) < Len(onlineCall.chunks)
           THEN /\ onlineCall' = [onlineCall EXCEPT !.out = out]
                /\ UNCHANGED page
           ELSE /\ onlineCall' = settled
                /\ page' = IF ~page.isLoading THEN page
                           ELSE IF ok
                           THEN finishTranslate(page, settled.result,
                                                "Online (Supabase)")
                           ELSE finishTranslate(page,
                                    translate(onlineCall.text,
                                              onlineCall.sourceLang,
                                              onlineCall.targetLang),
                                    "Local Dictionary")
    /\ UNCHANGED <<fbVars, asyncVars, offVars, onLine>>

NextPage ==
    \/ \E t \in PageTexts : SetInputText(t)
    \/ \E l \in PageSourceLangs : SetSourceLang(l)
    \/ \E tab \in Tabs : SetActiveTab(tab)
    \/ ClearAll
    \/ NetworkChanges
    \/ HandleTranslate
    \/ \E r \in Responses : FetchResponds(r)

\* the page is loaded over a storage whose items are intact
InitPage ==
    /\ InitOffline
    /\ localStorage.languagePackStatus.kind # "corrupt"
    /\ localStorage.offlineTranslationCache.kind # "corrupt"

SpecPage == InitPage /\ [][NextPage]_vars

\* String.prototype.repeat
RECURSIVE repeat(_, _)
repeat(s, n) == IF n = 0 THEN "" ELSE s \o repeat(s, n - 1)

\* a sentence of more than half of maxLen characters
LongSentence == repeat("aaaaaaaaaa", 109) \o "."

\* a text passed to onlineTranslationService.translate has at most MaxParts
\* of the parts below
MaxParts == 5

ChunkParts == {"a.", " ", "\n\n", "\r\n\r\n", LongSentence}

RECURSIVE ChunkTextsUpTo(_)
ChunkTextsUpTo(n) ==
    IF n = 0 THEN {""}
    ELSE LET shorter == ChunkTextsUpTo(n - 1)
         IN  shorter \cup {t \o part : t \in shorter, part \in ChunkParts}

ChunkTexts == ChunkTextsUpTo(MaxParts)

\* one call of onlineTranslationService.translate and the responses to it
NextChunk ==
    \/ \E t \in ChunkTexts : onlineCall.pc = "idle" /\ OnlineTranslate(t, "ne", "en")
    \/ \E r \in Responses : FetchResponds(r)

\* the translate calls of the page go to the service the pages import
InitChunk == InitEmptyStorage /\ build = Services

SpecChunk == InitChunk /\ [][NextChunk]_vars


HasDirect(src, tgt) == LanguageDictGet(src \o "-" \o tgt) # Undefined
HasToEnglish(src) == LanguageDictGet(src \o "-en") # Undefined
HasFromEnglish(tgt) == LanguageDictGet("en-" \o tgt) # Undefined

\* a call whose argument is the outcome of an earlier call: when that call
\* threw, the outer call is never made
translateOutcome(mid, src, tgt) ==
    IF mid = TypeErrorThrown THEN TypeErrorThrown ELSE translate(mid, src, tgt)

\* C1: for a pair without a direct lexicon but with src-en and en-tgt,
\* translate(text, src, tgt) has the same outcome as
\* translate(translate(text, src, "en"), "en", tgt); "bonjour" fr->de is "hallo".
C1_PivotCorrectness ==
    (fbDone /\ ~HasDirect(fbSrc, fbTgt)
            /\ HasToEnglish(fbSrc) /\ HasFromEnglish(fbTgt))
    => /\ fbResult = translateOutcome(translate(fbText, fbSrc, "en"), "en", fbTgt)
       /\ (fbText = "bonjour" /\ fbSrc = "fr" /\ fbTgt = "de")
              => fbResult = "hallo"

C1_Witness ==
    /\ fbDone /\ fbText = "bonjour" /\ fbSrc = "fr" /\ fbTgt = "de"
    /\ fbResult = "hallo"

\* the original reading of C2: without a direct lexicon and without a
\* complete pivot (src-en and en-tgt), the marked text is returned
C2_Original_MarkerWithoutPivot ==
    (fbDone /\ ~HasDirect(fbSrc, fbTgt)
            /\ ~(HasToEnglish(fbSrc) /\ HasFromEnglish(fbTgt)))
    => fbResult = NoDictionaryMarker(fbSrc, fbTgt) \o fbText

\* C2 (amended): when neither Lexicon[src-tgt] nor Lexicon[src-en] exists,
\* translate returns normally with "[No dictionary: src-tgt] " followed by
\* the original text, and isLanguagePairSupported(src, tgt) is false;
\* translate("hello", "en", "xx") contains "en-xx" and "hello".
C2_NoDictionaryMarker ==
    (fbDone /\ ~HasDirect(fbSrc, fbTgt) /\ ~HasToEnglish(fbSrc))
    => /\ fbResult = "[No dictionary: " \o fbSrc \o "-" \o fbTgt \o "] " \o fbText
       /\ fbResult # TypeErrorThrown
       /\ includes(fbResult, fbSrc \o "-" \o fbTgt)
       /\ includes(fbResult, fbText)
       /\ ~isLanguagePairSupported(fbSrc, fbTgt)

C2_Witness ==
    /\ fbDone /\ fbText = "hello" /\ fbSrc = "en" /\ fbTgt = "xx"
    /\ fbResult = "[No dictionary: en-xx] hello"
    /\ ~isLanguagePairSupported("en", "xx")

\* own keys of a lexicon
HasKey(lex, key) == \E i \in 1..Len(lex) : lex[i][1] = key
ValueOf(lex, key) == lex[CHOOSE i \in 1..Len(lex) : lex[i][1] = key][2]

\* C3: for a pair with a direct lexicon and a text that is a key of it up to
\* letter case and surrounding whitespace, translate returns exactly the
\* mapped value (translate("hello") and translate("HELLO") en->hi agree).
C3_ExactMatch ==
    (fbDone /\ HasDirect(fbSrc, fbTgt))
    => LET lex == LanguageDictGet(fbSrc \o "-" \o fbTgt)
       IN  \A i \in 1..Len(lex) :
              toLowerCase(trim(fbText)) = lex[i][1] => fbResult = lex[i][2]

C3_Witness ==
    /\ fbDone /\ fbText = " HELLO\n" /\ fbSrc = "en" /\ fbTgt = "hi"
    /\ fbResult = "namaste"

\* the lexicons translate applies to a text, in order
LexiconsApplied(src, tgt) ==
    IF HasDirect(src, tgt) THEN <<LanguageDictGet(src \o "-" \o tgt)>>
    ELSE IF HasToEnglish(src) /\ HasFromEnglish(tgt)
         THEN <<LanguageDictGet(src \o "-en"), LanguageDictGet("en-" \o tgt)>>
    ELSE IF HasToEnglish(src) THEN <<LanguageDictGet(src \o "-en")>>
    ELSE <<>>

lineBreaks(s) == countIn(s, {"\n"})

\* C4: the output has as many line breaks as the input, and a blank input
\* line is a blank output line at the same position (stated for texts
\* without leading or trailing whitespace).
C4_LinePreservation ==
    (fbDone /\ Len(LexiconsApplied(fbSrc, fbTgt)) > 0 /\ IsString(fbResult)
            /\ trim(fbText) = fbText)
    => /\ lineBreaks(fbResult) = lineBreaks(fbText)
       /\ LET inLines == split(fbText, {"\n"}, FALSE)
              outLines == split(fbResult, {"\n"}, FALSE)
          IN  \A i \in 1..Len(inLines) :
                 trim(inLines[i]) = ""
                     => (i <= Len(outLines) /\ trim(outLines[i]) = "")

\* the original reading of C5: every whitespace-delimited token that is not
\* a key (lowered, in original case, stripped) is found unchanged in the
\* output; stated for tokens made of letters and digits only that do not
\* name an inherited member of the lexicon object
C5_Original_EveryTokenPassesThrough ==
    (fbDone /\ HasDirect(fbSrc, fbTgt))
    => LET lex == LanguageDictGet(fbSrc \o "-" \o fbTgt)
           tokens == splitWhitespace(trim(fbText))
       IN  \A i \in 1..Len(tokens) :
              (/\ tokens[i] # "" /\ stripNonAlnum(tokens[i]) = tokens[i]
               /\ toLowerCase(tokens[i]) \notin ObjectPrototypeKeys
               /\ ~HasKey(lex, toLowerCase(tokens[i]))
               /\ ~HasKey(lex, tokens[i])
               /\ ~HasKey(lex, stripNonAlnum(toLowerCase(tokens[i]))))
              => includes(String(fbResult), tokens[i])

IsSingleWord(text) == ~isParagraph(text) /\ ~isSentence(text) /\ ~isPhrase(text)

NoLookupHit(lex, text) ==
    /\ ~Truthy(PairGet(lex, toLowerCase(trim(text))))
    /\ ~Truthy(PairGet(lex, trim(text)))
    /\ ~Truthy(PairGet(lex, stripNonAlnum(toLowerCase(trim(text)))))

\* C5 (amended): a text that is a single word (one token, no sentence
\* terminator) and has no entry under its lowered, original-case or stripped
\* form in any lexicon applied is returned unchanged.
C5_WordPassthrough ==
    LET applied == LexiconsApplied(fbSrc, fbTgt)
    IN  (/\ fbDone /\ Len(applied) > 0 /\ IsSingleWord(fbText)
         /\ \A i \in 1..Len(applied) : NoLookupHit(applied[i], fbText))
        => fbResult = fbText

C5_Witness ==
    /\ fbDone /\ fbText = "ello," /\ fbSrc = "en" /\ fbTgt = "hi"
    /\ fbResult = "ello,"

\* the original reading of C6: translate("", src, tgt) is "" for every pair
C6_Original_EmptyForEveryPair ==
    (fbDone /\ fbText = "") => fbResult = ""

\* C6 (amended): translate("", src, tgt) is "" whenever a lexicon is applied
\* (direct, pivoted or src-en); without one it is the bare marker
\* "[No dictionary: src-tgt] ".
C6_EmptyInput ==
    (fbDone /\ fbText = "")
    => IF Len(LexiconsApplied(fbSrc, fbTgt)) > 0
       THEN fbResult = ""
       ELSE fbResult = NoDictionaryMarker(fbSrc, fbTgt)

C6_Witness ==
    /\ fbDone /\ fbText = "" /\ fbSrc = "fr" /\ fbTgt = "de" /\ fbResult = ""

(***************************************************************************)
(* Claims about the OfflineTranslationService                              *)
(***************************************************************************)

\* the pack of langCode exists and is marked downloaded
PackInstalled(langCode) ==
    langCode \in PackCodes(build) /\ isDownloaded[langCode]

\* C7 (cache TTL): a translateOffline call that returns for a key whose
\* cache entry is 24 hours old or older recomputes the translation and
\* overwrites the entry with the new translation and the current time; for
\* an entry younger than 24 hours it returns the cached translation and
\* leaves the entry as it is.
C7_CacheTTL ==
    [][\A c \in OfflineCalls :
          LET key == CacheKey(build, c[1], c[2], c[3])
          IN  ( /\ TranslateOffline(c[1], c[2], c[3])
                /\ ~lastCall'.threw
                /\ key \in DOMAIN translationCache )
              => IF now - translationCache[key].timestamp >= TTL
                 THEN /\ key \in DOMAIN translationCache'
                      /\ translationCache'[key].timestamp = now
                      /\ lastCall'.value = translationCache'[key].translation
                 ELSE /\ translationCache' = translationCache
                      /\ lastCall'.value = translationCache[key].translation
      ]_vars

\* C8 (PackNotInstalled): translateOffline(text, lang, tgt) raises an error
\* exactly when the pack of lang is not installed, which includes every
\* state in which a download of lang is still in progress; with the pack
\* installed the call returns a string.
C8_PackNotInstalled ==
    [][\A c \in OfflineCalls :
          TranslateOffline(c[1], c[2], c[3])
              => (lastCall'.threw <=> ~PackInstalled(c[2]))
      ]_vars

\* C9 (install progress ordering): the values handed to onProgress are
\* strictly increasing, start at 0 and end at 100 before the call returns
\* true, and while a download of a pack that was not installed is in
\* progress the pack is not installed: isDownloaded is false, the
\* dictionary is empty and isLanguagePackDownloaded reports false.
C9_InstallProgressOrdering ==
    /\ [][\A l \in DOMAIN download :
             /\ ( download'[l].progress # download[l].progress
                  /\ download'[l].progress # -1 )
                => /\ download'[l].progress > download[l].progress
                   /\ download[l].progress = -1 => download'[l].progress = 0
             /\ ( DownloadComplete(l) /\ lastCall'.value = "true" )
                => download'[l].progress = 100
         ]_vars
    /\ [](\A l \in DOMAIN download :
             ( download[l].pc = "loop" /\ ~download[l].wasDownloaded )
             => /\ ~isDownloaded[l]
                /\ dictionary[l] = EmptyMap
                /\ ~isLanguagePackDownloaded(build, State, l).ret)

\* C10 (download interruption): when downloadLanguagePack(lang) returns
\* false for a pack that was not installed when it was called, the pack is
\* not installed afterwards (isDownloaded false, isLanguagePackDownloaded
\* false) and its dictionary is empty.
C10_DownloadInterruption ==
    [][\A l \in DOMAIN download :
          ( /\ DownloadComplete(l) \/ DownloadCallbackThrows(l)
            /\ lastCall'.value = "false"
            /\ ~download[l].wasDownloaded )
          => /\ ~isDownloaded'[l]
             /\ dictionary'[l] = EmptyMap
             /\ ~isLanguagePackDownloaded(build, State, l).ret'
      ]_vars

\* the cache keys of the calls whose source language is langCode
KeysOfLanguage(langCode) ==
    {CacheKey(build, c[1], c[2], c[3]) : c \in {x \in OfflineCalls : x[2] = langCode}}

\* the keys of the cache as localStorage holds it
PersistedCacheKeys ==
    IF localStorage.offlineTranslationCache.kind = "json"
    THEN DOMAIN localStorage.offlineTranslationCache.val
    ELSE {}

\* C11 (pack removal): after removeLanguagePack(lang) has returned true the
\* pack's dictionary is empty, its isDownloaded flag is false,
\* isLanguagePackDownloaded(lang) returns false, and neither the cache in
\* memory nor the persisted cache holds an entry of a call whose language is
\* lang.
C11_PackRemoval ==
    [][\A l \in LangCodes :
          ( RemoveLanguagePack(l) /\ lastCall'.value = "true" )
          => /\ ~isDownloaded'[l]
             /\ dictionary'[l] = EmptyMap
             /\ ~isLanguagePackDownloaded(build, State, l).ret'
             /\ KeysOfLanguage(l)' \cap DOMAIN translationCache' = {}
             /\ KeysOfLanguage(l)' \cap PersistedCacheKeys' = {}
      ]_vars

\* the packs other than the English one
OtherPacks == PackCodes(build) \ {"en"}

\* C12 (pack lifecycle): constructed over empty storage, every pack other
\* than the English one is not installed; such a pack becomes installed
\* only in the step that completes a downloadLanguagePack for it; and the
\* English pack is installed in every reachable state.
C12_PackLifecycle ==
    /\ \A l \in OtherPacks : ~PackInstalled(l)
    /\ [][\A l \in OtherPacks :
             ( ~PackInstalled(l) /\ PackInstalled(l)' ) => DownloadComplete(l)
         ]_vars
    /\ []PackInstalled("en")

\* C13 (the persisted install flag survives restarts): when a new
\* OfflineTranslationService is constructed over the storage the old one
\* left, a pack that was installed is installed again with its dictionary
\* populated, and a pack that was not installed (removed, or never
\* installed) is not installed.
C13_FlagSurvivesRestart ==
    [][Restart =>
          \A l \in PackCodes(build) :
              IF PackInstalled(l)
              THEN PackInstalled(l)' /\ dictionary'[l] # EmptyMap
              ELSE ~PackInstalled(l)'
      ]_vars

\* the storage with every unparsable item taken away
WithoutCorruptItems(ls) ==
    [ls EXCEPT !.languagePackStatus =
                   IF @.kind = "corrupt" THEN AbsentItem ELSE @,
               !.offlineTranslationCache =
                   IF @.kind = "corrupt" THEN AbsentItem ELSE @]

\* what the service holds in memory
InMemory(st) == <<st.isDownloaded, st.dictionary, st.translationCache>>

\* C14 (malformed persisted data): an unparsable cache or install-status
\* item is treated as absent.  The service a constructor leaves behind
\* holds what it would hold had the unparsable items been missing, and a
\* downloadLanguagePack that runs to its end and a removeLanguagePack of an
\* existing pack report success: no failure result reaches the caller
\* because of the stored data.
C14_MalformedDataNotSurfaced ==
    /\ [](lastCall = NoCall =>
             InMemory(State) =
                 InMemory(Constructor(build, WithoutCorruptItems(localStorage))))
    /\ [][\A l \in PackCodes(build) :
             ( DownloadComplete(l) \/ RemoveLanguagePack(l) )
                 => lastCall'.value = "true"
         ]_vars

\* C15 (unknown pack): for a language code without a pack,
\* downloadLanguagePack throws 'Language pack not found: <code>' and no
\* progress is reported, removeLanguagePack returns false and
\* isLanguagePackDownloaded returns false; none of the three calls changes a
\* pack, the cache or the storage.
C15_UnknownPack ==
    [][\A l \in UnknownCodes :
          /\ DownloadLanguagePack(l)
                => /\ lastCall' = Threw("downloadLanguagePack",
                                        "Language pack not found: " \o l)
                   /\ UNCHANGED <<isDownloaded, dictionary, translationCache,
                                  localStorage, download>>
          /\ RemoveLanguagePack(l)
                => /\ lastCall' = Returned("removeLanguagePack", "false")
                   /\ UNCHANGED <<isDownloaded, dictionary, translationCache,
                                  localStorage, download>>
          /\ IsLanguagePackDownloaded(l)
                => /\ lastCall' = Returned("isLanguagePackDownloaded", "false")
                   /\ UNCHANGED <<isDownloaded, dictionary, translationCache,
                                  localStorage, download>>
      ]_vars

\* downloadLanguagePack of an unknown code has thrown while a pack was
\* installed and a translation was cached
C15_Witness ==
    /\ lastCall = Threw("downloadLanguagePack", "Language pack not found: xx")
    /\ \E l \in PackCodes(build) : PackInstalled(l)
    /\ translationCache # EmptyObject
    /\ PersistedCacheKeys # {}

\* the packs for which isLanguagePackDownloaded(code) returns true, in the
\* order getAvailableLanguagePacks lists them
ReportedDownloaded ==
    LET reported(c) == isLanguagePackDownloaded(build, State, c).ret
    IN  SelectSeq(getAvailableLanguagePacks(build), reported)

\* C16 (storage summary): in every state getStorageInfo() reports as
\* downloadedPacks the number of packs for which isLanguagePackDownloaded
\* is true, as usedSize the sum of the sizes of those packs, as
\* availablePacks the number of packs getAvailableLanguagePacks lists and as
\* totalSize the sum of all sizes.
C16_StorageSummary ==
    LET info == getStorageInfo(build, State)
    IN  /\ info.downloadedPacks = Len(ReportedDownloaded)
        /\ info.usedSize = sumOfSizes(ReportedDownloaded)
        /\ info.availablePacks = Len(getAvailableLanguagePacks(build))
        /\ info.totalSize = sumOfSizes(getAvailableLanguagePacks(build))
        /\ info.downloadedPacks <= info.availablePacks
        /\ info.usedSize <= info.totalSize

\* the service st finds nothing: no pack is installed, no dictionary is
\* populated and no translation is cached
FindsNothing(st) ==
    /\ st.translationCache = EmptyObject
    /\ \A l \in PackCodes(build) :
           ~st.isDownloaded[l] /\ st.dictionary[l] = EmptyMap

\* C19 (clear all): after clearOfflineData() the translation cache is
\* empty, every pack has an empty dictionary and is not installed,
\* isLanguagePackDownloaded returns false for every code, and the persisted
\* cache and install flags are gone; every translateOffline called next in
\* this process throws, and a service constructed over the storage finds no
\* pack installed and no cached translation.
C19_ClearAll ==
    [][ClearOfflineData =>
          /\ FindsNothing(State)'
          /\ \A l \in LangCodes : ~isLanguagePackDownloaded(build, State, l).ret'
          /\ localStorage'.offlineTranslationCache = AbsentItem
          /\ localStorage'.languagePackStatus = AbsentItem
          /\ localStorage'.langPackDownloaded = {}
          /\ \A c \in OfflineCalls :
                 translateOfflineOutcome(c[1], c[2], c[3])'.threw
          /\ FindsNothing(Constructor(build, localStorage))'
      ]_vars

(***************************************************************************)
(* Claims about the page and the OnlineTranslationService                  *)
(***************************************************************************)

\* the step is a run of handleTranslate in which the selected tier fails: a
\* fetch of the awaited online call ends with another status or a network
\* error, or the offline tier is selected and translateOffline throws
SelectedTierFails ==
    \/ /\ page.isLoading
       /\ \E r \in {"notOk", "networkError"} : FetchResponds(r)
    \/ /\ HandleTranslate
       /\ trim(page.inputText) # ""
       /\ lastCall'.op = "translateOffline"
       /\ lastCall'.threw

\* the text, source and target language handleTranslate was called with
TranslatedText == IF page.isLoading THEN onlineCall.text ELSE page.inputText
TranslatedFrom == IF page.isLoading THEN onlineCall.sourceLang ELSE page.sourceLang
TranslatedTo == IF page.isLoading THEN onlineCall.targetLang ELSE page.targetLang

\* C17 (tier fallback): when the selected tier fails in handleTranslate, the
\* result of fallbackTranslationService.translate for the same text and
\* languages is shown as the translation, the toast reports a complete
\* translation and not a failed one, and isLoading is false again.
C17_TierFallback ==
    [][SelectedTierFails =>
          /\ page'.translation =
                 translate(TranslatedText, TranslatedFrom, TranslatedTo)
          /\ page'.toast = "Translation complete!"
          /\ ~page'.isLoading
      ]_vars

\* every chunk answered so far came back unchanged
Echoed == onlineCall.out = SubSeq(onlineCall.chunks, 1, Len(onlineCall.out))

\* C18 (remote chunking preserves paragraph boundaries): when the endpoint
\* returns every chunk unchanged, the text onlineTranslationService.translate
\* returns has the same sequence of paragraphs, separated by blank lines,
\* as the text it was called with.
C18_ChunkingPreservesParagraphs ==
    [][( /\ Echoed
         /\ FetchResponds("echo")
         /\ onlineCall'.pc = "returned" )
       => splitParagraphs(onlineCall'.result) = splitParagraphs(onlineCall.text)
      ]_vars


(***************************************************************************)
(* Lexicon escalation of FallbackTranslationService.translate              *)
(***************************************************************************)

\* which of the four cases applies to a language pair, tried in order
EscalationCase(src, tgt) ==
    IF HasDirect(src, tgt) THEN "direct"
    ELSE IF HasToEnglish(src) /\ HasFromEnglish(tgt) THEN "pivot"
    ELSE IF HasToEnglish(src) THEN "englishOnly"
    ELSE "noDictionary"

\* C20 (lexicon escalation order): translate uses Lexicon[src-tgt] alone
\* when it exists; otherwise, when Lexicon[src-en] and Lexicon[en-tgt] both
\* exist, it resolves the text src->en and the intermediate result en->tgt;
\* otherwise, when only Lexicon[src-en] exists, it returns the src->en
\* result without a marker; otherwise it returns the no-dictionary marker
\* and the text.  The first case that applies decides, and no other does.
C20_EscalationOrder ==
    fbDone =>
        LET which == EscalationCase(fbSrc, fbTgt)
            direct == LanguageDictGet(fbSrc \o "-" \o fbTgt)
            toEnglish == LanguageDictGet(fbSrc \o "-en")
            fromEnglish == LanguageDictGet("en-" \o fbTgt)
            marker == NoDictionaryMarker(fbSrc, fbTgt)
        IN  /\ which = "direct"
                => fbResult = translateComplexText(fbText, direct, fbSrc, fbTgt)
            /\ which = "pivot"
                => fbResult = translateComplexText(
                                  translateComplexText(fbText, toEnglish, fbSrc, "en"),
                                  fromEnglish, "en", fbTgt)
            /\ which = "englishOnly"
                => /\ fbResult = translateComplexText(fbText, toEnglish, fbSrc, "en")
                   /\ IsString(fbResult) => ~includes(fbResult, marker)
            /\ which = "noDictionary"
                => fbResult = marker \o fbText
            \* the shortcut for an English target never takes a call
            \* away from these cases: it needs Lexicon[src-en], the
            \* direct lexicon of such a call
            /\ ~(which # "direct" /\ fbTgt = "en" /\ toEnglish # Undefined)

\* each case has been taken, with an outcome that tells it from the others
C20_Witness ==
    /\ fbDone /\ fbText = "bonjour" /\ fbSrc = "fr" /\ fbTgt = "xx"
    /\ EscalationCase("fr", "xx") = "englishOnly"
    /\ EscalationCase("fr", "de") = "pivot"
    /\ EscalationCase("en", "hi") = "direct"
    /\ EscalationCase("xx", "en") = "noDictionary"
    /\ fbResult = "hello"

(***************************************************************************)
(* The pattern matcher of FallbackTranslationService                       *)
(***************************************************************************)

\* out with every occurrence of the placeholder replaced by grp as it is
RECURSIVE fillPlaceholder(_, _, _)
fillPlaceholder(out, placeholder, grp) ==
    IF ~includes(out, placeholder) THEN out
    ELSE LET i == indexOf(out, placeholder)
         IN  SubSeq(out, 1, i - 1) \o grp
             \o fillPlaceholder(SubSeq(out, i + Len(placeholder), Len(out)),
                                placeholder, grp)

\* the template with each positional placeholder replaced by the trimmed
\* captured group
RECURSIVE fillTemplate(_, _, _)
fillTemplate(template, groups, i) ==
    IF i > Len(groups) THEN template
    ELSE fillTemplate(fillPlaceholder(template, Placeholder(i), trim(groups[i])),
                      groups, i + 1)

\* translateComplexText passes the whole text to translateSentence
SentenceLevel(text, lex) ==
    /\ ~Truthy(PairGet(lex, trim(toLowerCase(text))))
    /\ ~Truthy(PairGet(lex, trim(text)))
    /\ ~isParagraph(text)
    /\ isSentence(text)

\* C21 (pattern matcher): for a sentence-level span the rules of the pair
\* are tried in declaration order; on the first rule that matches,
\* translateSentence returns the template with each positional placeholder
\* replaced by the trimmed captured group, whatever the lexicon holds
\* ("my name is Sam" en->ne gives "mero naam Sam ho"); when the pair has no
\* rule set or no rule matches, applyPatternRules returns a no-match result
\* that is not the empty string and the span is resolved by the lexicon.
C21_PatternMatcher ==
    (fbDone /\ HasDirect(fbSrc, fbTgt)) =>
        LET lex == LanguageDictGet(fbSrc \o "-" \o fbTgt)
            rules == patternRules(fbSrc \o "-" \o fbTgt)
            original == trim(fbText)
            i == IF rules = Undefined THEN 0 ELSE firstMatching(rules, original)
            expected == IF i # 0
                        THEN fillTemplate(rules[i].template,
                                          match(original, rules[i]).groups, 1)
                        ELSE resolveSentence(fbText, lex)
        IN  /\ translateSentence(fbText, lex, fbSrc, fbTgt) = expected
            /\ i # 0 => translateSentence(fbText, <<>>, fbSrc, fbTgt) = expected
            /\ i = 0 => /\ applyPatternRules(fbText, fbSrc, fbTgt) = Null
                        /\ Null # ""
            /\ SentenceLevel(fbText, lex) => fbResult = expected
            /\ (fbText = "My name is Sam" /\ fbSrc = "en" /\ fbTgt = "ne")
                   => fbResult = "mero naam Sam ho"

(***************************************************************************)
(* The segmenter of FallbackTranslationService                             *)
(***************************************************************************)

\* the number of sentence-terminator characters of a text
terminators(text) == countIn(text, SentenceEnders)

\* the number of whitespace-separated tokens of a text
tokens(text) == Len(splitWhitespace(trim(text)))

\* the rule that governs a text: the first positive classification
Classification(text) ==
    IF terminators(text) > 1 THEN "paragraph"
    ELSE IF terminators(text) >= 1 \/ tokens(text) > 3 THEN "sentence"
    ELSE IF tokens(text) > 1 THEN "phrase"
    ELSE "word"

\* the outcome of one rule on the whole text
RuleOutcome(rule, text, lex, src, tgt) ==
    CASE rule = "paragraph" -> translateParagraph(text, lex, src, tgt)
      [] rule = "sentence" -> translateSentence(text, lex, src, tgt)
      [] rule = "phrase" -> translatePhrase(text, lex)
      [] OTHER -> translateWord(text, lex)

\* C22 (segmenter classification): a text that is not an exact lexicon
\* match is handled by exactly one of the rules paragraph (more than one
\* terminator), sentence (a terminator, or more than 3 tokens), phrase
\* (more than 1 token) and word, the first of them that applies in this
\* order: the result of translate is the result of that rule on the text.
C22_SegmenterClassification ==
    (fbDone /\ HasDirect(fbSrc, fbTgt)) =>
        LET lex == LanguageDictGet(fbSrc \o "-" \o fbTgt)
        IN  ( /\ ~HasKey(lex, trim(toLowerCase(fbText)))
              /\ ~HasKey(lex, trim(fbText)) )
            => fbResult = RuleOutcome(Classification(fbText), fbText, lex,
                                      fbSrc, fbTgt)

\* a text with two terminators has been translated by the paragraph rule,
\* whose result differs from the result of each of the other rules
C22_Witness ==
    /\ fbDone /\ fbText = "Sam.." /\ fbSrc = "en" /\ fbTgt = "hi"
    /\ Classification(fbText) = "paragraph"
    /\ fbResult = "Sam"
    /\ \A rule \in {"sentence", "phrase", "word"} :
          RuleOutcome(rule, fbText, Lexicon_en_hi, "en", "hi") # fbResult

(***************************************************************************)
(* The phrase rule of FallbackTranslationService                           *)
(***************************************************************************)

\* the entries of a lexicon a partial match accepts for a phrase: the key
\* is longer than 3 characters and is contained in the phrase or contains it
PartialEntries(lex, phrase) ==
    {i \in 1..Len(lex) :
        /\ Len(lex[i][1]) > 3
        /\ includes(phrase, lex[i][1]) \/ includes(lex[i][1], phrase)}

\* the phrase rule: the value of the key, else the translation of the first
\* entry a partial match accepts, else the tokens resolved by the word rule
\* and joined with single spaces
PhraseRule(text, lex) ==
    LET phrase == trim(toLowerCase(text))
        partial == PartialEntries(lex, phrase)
        words == splitWhitespace(trim(text))
    IN  IF HasKey(lex, phrase) THEN ValueOf(lex, phrase)
        ELSE IF partial # {}
             THEN lex[CHOOSE i \in partial : \A j \in partial : i <= j][2]
        ELSE join([i \in 1..Len(words) |-> translateWord(words[i], lex)], " ")

\* C23 (phrase rule and tie-break): translatePhrase returns the lexicon
\* value of the lowered, trimmed phrase when it is a key; otherwise the
\* translation of the first entry, in the lexicon's order, whose key is
\* longer than 3 characters and is contained in the phrase or contains it;
\* otherwise the word-by-word resolution of the phrase.  It holds for the
\* text as a phrase, and for the result of translate on a text the segmenter
\* classifies as a phrase.
C23_PhraseRule ==
    (fbDone /\ HasDirect(fbSrc, fbTgt)) =>
        LET lex == LanguageDictGet(fbSrc \o "-" \o fbTgt)
        IN  /\ translatePhrase(fbText, lex) = PhraseRule(fbText, lex)
            /\ ( /\ ~HasKey(lex, trim(toLowerCase(fbText)))
                 /\ ~HasKey(lex, trim(fbText))
                 /\ Classification(fbText) = "phrase" )
               => fbResult = PhraseRule(fbText, lex)

(***************************************************************************)
(* The hardcoded translations of the extended pack manager                 *)
(***************************************************************************)

\* what the service holds, in memory and in the storage
ServiceState == <<isDownloaded, dictionary, translationCache, localStorage>>

\* C24 (hardcoded translations are checked first): a translateOffline call
\* of the extended pack manager whose text meets an entry of the hardcoded
\* table for the source language returns the fixed text of the entry,
\* whatever the target language, the cache and the packs are, and leaves
\* the cache, the packs and the storage as they were.
C24_HardcodedFirst ==
    [][\A c \in HardcodedCalls :
          ( /\ build = Part002
            /\ getHardcodedTranslation(c[1], c[2]) # Null
            /\ TranslateOffline(c[1], c[2], c[3]) )
          => /\ lastCall' = Returned("translateOffline",
                                     getHardcodedTranslation(c[1], c[2]))
             /\ ServiceState' = ServiceState
      ]_vars

\* the greeting was returned from the table while the cache held another
\* translation of the same call and the Nepali pack was removed
C24_Witness ==
    /\ build = Part002
    /\ lastCall = Returned("translateOffline", "Hello! Greetings! How are you today?")
    /\ "namaste_ne_en" \in DOMAIN translationCache
    /\ translationCache["namaste_ne_en"].translation = "Hello"
    /\ ~isDownloaded["ne"]

(***************************************************************************)
(* The word translators of the extended pack manager                       *)
(***************************************************************************)

\* the split points of a token whose two parts are both keys of dict
SplitPoints(w, dict) ==
    { i \in 1..(Len(w) - 1) : /\ HasKey(dict, SubSeq(w, 1, i))
                              /\ HasKey(dict, SubSeq(w, i + 1, Len(w))) }

\* the smallest member of a non-empty set of numbers
Least(S) == CHOOSE i \in S : \A j \in S : i <= j

\* a token by the rule of decomposition: the entry of the whole token, else
\* the two entries of the first split, else (Nepali) the affix replacement,
\* else the token itself
DecomposedToken(w, dict, withAffix) ==
    IF HasKey(dict, w) THEN ValueOf(dict, w)
    ELSE IF SplitPoints(w, dict) # {}
    THEN LET i == Least(SplitPoints(w, dict))
         IN  ValueOf(dict, SubSeq(w, 1, i)) \o " "
                \o ValueOf(dict, SubSeq(w, i + 1, Len(w)))
    ELSE IF withAffix /\ affixIndex(w, dict) # 0
    THEN replace(w, dict[affixIndex(w, dict)][1], dict[affixIndex(w, dict)][2])
    ELSE w

\* a text by the rule of decomposition, token by token
DecomposedText(text, dict, withAffix) ==
    LET word(w) == DecomposedToken(w, dict, withAffix)
    IN  join(MapWords(splitWhitespace(text), word), " ")

\* the text holds a key of dict of more than one word: the Nepali translator
\* replaces such keys and does not go on to the tokens
HoldsPhrase(text, dict) ==
    \E i \in 1..Len(dict) : includes(dict[i][1], " ") /\ includes(text, dict[i][1])

\* C25 (compound-word decomposition): the word translators of the pack
\* manager give each token its whole-token dictionary entry when it has one,
\* else the two entries of the first split point in 1..length-1 whose prefix
\* and suffix are both dictionary keys, joined by one space, else (with no
\* such split and, for Nepali, no affix match) the token unchanged.
C25_CompoundDecomposition ==
    (fbDone /\ build = Part002) =>
        IF fbSrc = "ne"
        THEN HoldsPhrase(fbText, neToEnDict)
             \/ fbResult = DecomposedText(fbText, neToEnDict, TRUE)
        ELSE fbResult = DecomposedText(fbText, siToEnDict, FALSE)

(***************************************************************************)
(* The confidence of a cached translation                                  *)
(***************************************************************************)

\* the confidence values of the extended pack manager, in hundredths
SpecialCased == {80, 85, 90}

\* the confidence that goes with the way a translation was obtained
ConfidenceFits(b, text, dict, entry) ==
    IF b = Services
    THEN entry.confidence =
            IF entry.translation \in {text, "[Offline] " \o text} THEN 30 ELSE 80
    ELSE /\ entry.confidence \in {100, 70, 50} \cup SpecialCased
         /\ entry.confidence = 100 => entry.translation = MapGet(dict, trim(text))
         /\ entry.confidence = 50
               <=> entry.translation = "[Offline Translation] " \o text

\* C26 (confidence assignment): a cache entry written by translateOffline
\* carries a confidence between 0 and 1 that goes with the way the
\* translation was obtained (1.0 exact match, 0.8-0.9 special-cased, 0.7
\* word by word, 0.5 marked passthrough; in services/OfflineTranslation.ts
\* 0.3 when no translation was found and 0.8 only when one was found), and
\* the call returns the translation it cached whatever the confidence is.
C26_Confidence ==
    [][\A c \in ConfidenceCalls :
          LET key == CacheKey(build, c[1], c[2], c[3])
          IN  ( /\ TranslateOffline(c[1], c[2], c[3])
                /\ translationCache' # translationCache )
              => /\ key \in DOMAIN translationCache'
                 /\ translationCache'[key].confidence \in 0..100
                 /\ ConfidenceFits(build, c[1], dictionary'[c[2]],
                                   translationCache'[key])
                 /\ lastCall' = Returned("translateOffline",
                                         translationCache'[key].translation)
      ]_vars

(***************************************************************************)
(* A pack removed while a translation is in progress                       *)
(***************************************************************************)

\* the keys of a cache whose source language is lang
EntriesOf(cache, lang) == {k \in DOMAIN cache : startsWith(k, lang \o "-")}

\* C27 (removal racing with a translation): when removeLanguagePack(lang)
\* was executed while a translateOffline(text, lang, tgt) call of
\* services/OfflineTranslation.ts was suspended at an await, then once both
\* calls have completed the translation cache holds no entry for the source
\* language lang, in memory and in the storage, and the pack is not installed.
C27_RemovalRace ==
    ( /\ build = Services
      /\ removing.overlapped
      /\ removing.pc = "idle" /\ translating.pc = "idle" )
    => /\ EntriesOf(translationCache, removing.langCode) = {}
       /\ EntriesOf(localStorage.offlineTranslationCache.val, removing.langCode) = {}
       /\ ~isDownloaded[removing.langCode]

(***************************************************************************)
(* Packs installed at the same time                                        *)
(***************************************************************************)

\* the pack is installed with its own dictionary, and the stored status
\* says so
InstalledAndRecorded(langCode) ==
    /\ isDownloaded[langCode]
    /\ dictionary[langCode] = dictionaries(build, langCode)
    /\ localStorage.languagePackStatus.kind = "json"
    /\ langCode \in DOMAIN localStorage.languagePackStatus.val
    /\ localStorage.languagePackStatus.val[langCode] = TRUE

\* C28 (no lost update between concurrent installs): when downloadLanguagePack
\* ran for two different languages at the same time, however their steps
\* were interleaved, and both calls returned true, then both packs are
\* installed with their own dictionaries and the stored languagePackStatus
\* records true for both.
C28_NoLostUpdate ==
    \A l, m \in PackCodes(build) :
        ( /\ l # m
          /\ download[l].concurrent /\ download[l].returned = "true"
          /\ download[m].concurrent /\ download[m].returned = "true" )
        => InstalledAndRecorded(l) /\ InstalledAndRecorded(m)

\* the calls for Nepali and Sinhala ran at the same time and returned true
C28_Witness ==
    /\ download["ne"].concurrent /\ download["ne"].returned = "true"
    /\ download["si"].concurrent /\ download["si"].returned = "true"
    /\ lastCall = Returned("downloadLanguagePack", "true")
    /\ InstalledAndRecorded("ne")

(***************************************************************************)
(* The cache and the packs                                                 *)
(***************************************************************************)

\* the cache holds an entry of less than 24 hours for the call
FreshEntry(text, sourceLang, targetLang) ==
    LET key == CacheKey(build, text, sourceLang, targetLang)
    IN  /\ key \in DOMAIN translationCache
        /\ now - translationCache[key].timestamp < TTL

\* C29 (the cache never substitutes for a missing pack): in
\* services/OfflineTranslation.ts a translateOffline call whose source pack
\* is not installed throws 'Language pack not downloaded', also when the
\* cache holds a fresh entry for the text and the pair, and changes nothing;
\* a call returns a value only in a state where the source pack is installed.
C29_CacheNeedsPack ==
    [][\A c \in OfflineCalls :
          ( /\ build = Services
            /\ TranslateOffline(c[1], c[2], c[3])
            /\ ~(c[2] \in PackCodes(build) /\ isDownloaded[c[2]]) )
          => /\ lastCall' = Threw("translateOffline",
                                  "Language pack not downloaded: " \o c[2])
             /\ ServiceState' = ServiceState
      ]_vars

\* the call for a text of the stored cache has thrown while the entry is
\* fresh and the pack is not installed
C29_Witness ==
    /\ build = Services
    /\ lastCall = Threw("translateOffline", "Language pack not downloaded: ne")
    /\ FreshEntry("dhanyavaad", "ne", "en")
    /\ ~isDownloaded["ne"]

(***************************************************************************)
(* translate with the target language English                              *)
(***************************************************************************)

\* the branches of translate that a call without a direct lexicon can take
\* before it returns the marker
ShortcutTaken(src, tgt) == ~HasDirect(src, tgt) /\ tgt = "en" /\ HasToEnglish(src)
PivotTaken(src, tgt) ==
    ~HasDirect(src, tgt) /\ ~ShortcutTaken(src, tgt)
    /\ HasToEnglish(src) /\ HasFromEnglish(tgt)

\* C30 (English target without a direct lexicon): when targetLang is "en" and
\* Lexicon[src-en] does not exist, translate returns the no-dictionary
\* marker and the text; the branch 'target is English and Lexicon[src-en]
\* exists' and the pivot branch are never taken for an English target,
\* because the direct lexicon and Lexicon[src-en] are the same table.
C30_EnglishTarget ==
    (fbDone /\ fbTgt = "en") =>
        /\ LanguageDictGet(fbSrc \o "-" \o fbTgt) = LanguageDictGet(fbSrc \o "-en")
        /\ ~ShortcutTaken(fbSrc, fbTgt)
        /\ ~PivotTaken(fbSrc, fbTgt)
        /\ ~HasToEnglish(fbSrc)
              => fbResult = "[No dictionary: " \o fbSrc \o "-en] " \o String(fbText)

\* a text for English from a language without a lexicon has come back marked
C30_Witness ==
    /\ fbDone /\ fbSrc = "xx" /\ fbTgt = "en" /\ fbText = "hello you"
    /\ ~HasToEnglish("xx")
    /\ fbResult = "[No dictionary: xx-en] hello you"

====
